---- MODULE Spec2Model ----
(***************************************************************************)
(* Model of the TrueNAS JSON-RPC client (internal/client): one Client      *)
(* shared by concurrent callers, the transports it dials, the              *)
(* readResponses goroutines it starts and the server behind them.          *)
(*                                                                         *)
(* Every goroutine is a stack of frames (Call -> Connect -> authenticate   *)
(* -> Call ...), one step per blocking point or shared-memory access.      *)
(***************************************************************************)
EXTENDS Integers, Sequences, FiniteSets, TLC

\* ------------------------------------------------------------------ bounds
Threads == {1, 2}        \* caller goroutines
MaxDials == 2            \* successful dials (transports) in one behaviour
MaxOps == 2              \* exported operations started in one behaviour
MaxFrames == 2           \* frames the server sends in one behaviour
MaxEvents == 3           \* dials and frames of one behaviour together

Host == "nas"            \* Config.Host
Kinds == {"true", "false", "bad", "error"}   \* payload of a response frame
DialCauses == {"refused", "canceled"}        \* causes of a failed dial

VARIABLES
    conn,         \* Client.conn: 0 is nil, k > 0 the k-th dialed transport
    connected,    \* Client.connected
    connMu,       \* Client.connMu: 0 free, t the goroutine that locked it
    requestID,    \* Client.requestID
    responses,    \* Client.responses: id -> buffered channel (capacity 1)
    responsesMu,  \* Client.responsesMu: 0 free, r the reader blocked inside it
    ctxDone,      \* Client.ctx is cancelled
    stack,        \* per caller goroutine: its call stack, innermost last
    result,       \* per caller goroutine: what its operation returned in the last step
    tr,           \* the dialed transports: closed by the client, broken, the
                  \* requests written, whether an auth call on it returned true
    reader,       \* the readResponses goroutines, one per successful dial
    nframes,      \* frames the server has sent
    nops,         \* operations started
    crashed,      \* a goroutine panicked: the process is gone
    probe,        \* an error handed to the error classifier and its answer
    recv,         \* a response handed to the end of Call, and what Call made of it
    job,          \* a WaitForJob or CreateWithJob call, the server's answers and its outcome
    query,        \* a QueryParams value, the builder calls made on it and the last of them
    codec         \* a request being built, encoded and decoded

\* The client's state, and the inputs and answers of the functions that are
\* studied apart from it.
clientVars == <<conn, connected, connMu, requestID, responses, responsesMu,
                ctxDone, stack, result, tr, reader, nframes, nops, crashed>>
aside == <<probe, recv, job, query, codec>>
\* aside, but for one of its variables
butProbe == <<recv, job, query, codec>>
butRecv == <<probe, job, query, codec>>
butJob == <<probe, recv, query, codec>>
butQuery == <<probe, recv, job, codec>>
butCodec == <<probe, recv, job, query>>
vars == <<clientVars, aside>>

\* ------------------------------------------------------------- error values
\* An error value: its kind, the ConnectionError fields, and the line of the
\* statement that produced it (callers above pass it on unchanged or wrapped).
Err(kind, host, cause, at) == [kind |-> kind, Host |-> host, Err |-> cause, at |-> at]
Nil(at) == Err("nil", "", "", at)
None == Err("none", "", "", 0)

\* Mutant: the connection error drops the cause of the failed dial.
NewConnectionError_NoCause(host, err) == Err("ConnectionError", host, "", 119)

NewConnectionError(host, err) == Err("ConnectionError", host, err, 119)
Unwrap(e) == e.Err

\* authenticate: err is what Call returned, res the bool it decoded into
authenticate(err, res) ==
    IF err.kind # "nil" THEN Err("authFailed", "", err.kind, 151)
    ELSE IF ~res THEN Err("authFailed", "", "invalid API key", 154)
    ELSE Nil(156)

\* --------------------------------------------------------- error classifier
\* The error codes of the wire protocol.
ErrCodeParseError == -32700
ErrCodeInvalidRequest == -32600
ErrCodeMethodNotFound == -32601
ErrCodeInvalidParams == -32602
ErrCodeInternalError == -32603
ErrCodeNotAuthenticated == 1
ErrCodeNotAuthorized == 2
ErrCodeNotFound == 3
ErrCodeValidation == 4

\* The longest Details text, in fragments.
MaxDetails == 2

\* A text is a sequence of fragments; the two texts the classifier looks for
\* are one fragment each, "other" is any text holding neither.
Fragments == {"InstanceNotFound", "does not exist", "other"}
Texts == UNION {[1..n -> Fragments] : n \in 0..MaxDetails}

\* strings.Contains: sub occurs in s as a contiguous run.
Contains(s, sub) ==
    \E i \in 0..(Len(s) - Len(sub)) : SubSeq(s, i + 1, i + Len(sub)) = sub

\* The codes an APIError is given here: the nine named ones, zero and an
\* application code with no name.
Codes == {ErrCodeParseError, ErrCodeInvalidRequest, ErrCodeMethodNotFound,
          ErrCodeInvalidParams, ErrCodeInternalError, 0,
          ErrCodeNotAuthenticated, ErrCodeNotAuthorized, ErrCodeNotFound,
          ErrCodeValidation, 5}

\* An error value as the classifier sees it: its dynamic type, and the Code
\* and Details of the APIError it is or wraps. type "nil" is the nil error,
\* "ConnectionError" a *ConnectionError, "wrapped" an APIError wrapped by
\* fmt.Errorf("...: %w", apiErr), "other" any other error.
Error(type, code, details) == [type |-> type, Code |-> code, Details |-> details]
APIErrors == {Error("APIError", c, d) : c \in Codes, d \in Texts}
OtherErrors ==
    {Error(ty, 0, << >>) : ty \in {"nil", "ConnectionError", "other"}}
    \cup {Error("wrapped", c, d) : c \in {ErrCodeNotAuthenticated, ErrCodeNotFound,
                                           ErrCodeValidation, ErrCodeInvalidParams},
                                   d \in {<< >>, <<"InstanceNotFound">>}}
Errors == APIErrors \cup OtherErrors

\* The repository holds two versions of the classifier's file.
Impls == {"errors.go", "part_010"}

\* (*APIError).IsNotFound, version of part_010.
IsNotFound(e) ==
    IF e.Code = ErrCodeNotFound THEN TRUE
    ELSE IF e.Code = ErrCodeInvalidParams
              /\ (Contains(e.Details, <<"InstanceNotFound">>)
                  \/ Contains(e.Details, <<"does not exist">>)) THEN TRUE
    ELSE FALSE

\* (*APIError).IsNotFound, version of internal/client/errors.go.
IsNotFoundCode(e) == e.Code = ErrCodeNotFound

\* (*APIError).IsAuthError, the same in both versions.
APIErrorIsAuthError(e) ==
    e.Code = ErrCodeNotAuthenticated \/ e.Code = ErrCodeNotAuthorized

\* (*APIError).IsValidationError, the same in both versions.
IsValidationError(e) == e.Code = ErrCodeValidation

\* err.(*APIError): a type assertion, which does not unwrap.
IsAPIError(err) == err.type = "APIError"

\* IsNotFoundError(err), with the IsNotFound of the version impl.
IsNotFoundError(impl, err) ==
    IF IsAPIError(err)
    THEN IF impl = "part_010" THEN IsNotFound(err) ELSE IsNotFoundCode(err)
    ELSE FALSE

\* IsAuthError(err).
IsAuthError(err) == IF IsAPIError(err) THEN APIErrorIsAuthError(err) ELSE FALSE

\* No package-level function asks for a validation error: a caller asserts the
\* type and calls the method, as the two functions above do.
IsValidationErrorOf(err) == IF IsAPIError(err) THEN IsValidationError(err) ELSE FALSE

\* The classifier's verdict on err.
Verdict(impl, err) ==
    [notFound   |-> IsNotFoundError(impl, err),
     auth       |-> IsAuthError(err),
     validation |-> IsValidationErrorOf(err)]

\* No error is being classified. asked tells whether out is a verdict.
NoVerdict == [notFound |-> FALSE, auth |-> FALSE, validation |-> FALSE]
NoProbe == [impl |-> "-", err |-> Error("nil", 0, << >>), asked |-> FALSE,
            out |-> NoVerdict]

\* ------------------------------------------------------- response payloads
\* json.RawMessage of an error's data: nil when the field is absent, else the
\* text of the field.
NilData == [nil |-> TRUE, text |-> << >>]
Data(text) == [nil |-> FALSE, text |-> text]

\* json.RawMessage of a result: nil when the field is absent, else one of the
\* JSON texts a server sends.
Payloads == {"true", "false", "null", "1"}
NilResult == [nil |-> TRUE, json |-> ""]
Result(json) == [nil |-> FALSE, json |-> json]

\* *JSONRPCError: nil, or the code, message and data of the wire error.
Messages == {"", "boom"}
NilRPCError == [nil |-> TRUE, Code |-> 0, Message |-> "", Data |-> NilData]
JSONRPCError(code, message, data) ==
    [nil |-> FALSE, Code |-> code, Message |-> message, Data |-> data]
RPCErrors ==
    {JSONRPCError(c, m, d) :
        c \in Codes, m \in Messages,
        d \in {NilData} \cup {Data(t) : t \in Texts \ {<< >>}}}

\* JSONRPCResponse, but for its id.
JSONRPCResponse(res, err) == [Result |-> res, Error |-> err]
Responses ==
    {JSONRPCResponse(res, err) :
        res \in {NilResult} \cup {Result(j) : j \in Payloads},
        err \in {NilRPCError} \cup RPCErrors}

\* The result argument of Call: nil, or a pointer to a bool that holds val.
NilOut == [nil |-> TRUE, val |-> FALSE]
Out(val) == [nil |-> FALSE, val |-> val]
Outs == {NilOut, Out(FALSE), Out(TRUE)}

\* An error value of Call's last statements: nil, an *APIError or the wrapped
\* error of json.Unmarshal.
NilError == [type |-> "nil", Code |-> 0, Message |-> "", Details |-> << >>]
UnmarshalError ==
    [type |-> "other", Code |-> 0, Message |-> "failed to unmarshal response",
     Details |-> << >>]

\* Mutant: the API error loses the data of the wire error.
NewAPIError_NoDetails(rpcErr) ==
    [type |-> "APIError", Code |-> rpcErr.Code, Message |-> rpcErr.Message,
     Details |-> << >>]

\* NewAPIError(rpcErr)
NewAPIError(rpcErr) ==
    [type |-> "APIError", Code |-> rpcErr.Code, Message |-> rpcErr.Message,
     Details |-> IF rpcErr.Data.nil THEN << >> ELSE rpcErr.Data.text]

\* json.Unmarshal(data, &b) for a bool b that holds val: a JSON boolean is
\* stored, null leaves b as it is, any other value is a type error.
Unmarshal(json, val) ==
    IF json = "true" THEN [ok |-> TRUE, val |-> TRUE]
    ELSE IF json = "false" THEN [ok |-> TRUE, val |-> FALSE]
    ELSE IF json = "null" THEN [ok |-> TRUE, val |-> val]
    ELSE [ok |-> FALSE, val |-> val]

\* Lines 199-208 of Call: what it returns for the response resp, and what the
\* caller's output out holds after it; decoded tells whether json.Unmarshal
\* was called.
Receive(resp, out) ==
    IF ~resp.Error.nil
    THEN [err |-> NewAPIError(resp.Error), out |-> out, decoded |-> FALSE]
    ELSE IF ~out.nil /\ ~resp.Result.nil
    THEN LET u == Unmarshal(resp.Result.json, out.val)
         IN IF ~u.ok
            THEN [err |-> UnmarshalError, out |-> Out(u.val), decoded |-> TRUE]
            ELSE [err |-> NilError, out |-> Out(u.val), decoded |-> TRUE]
    ELSE [err |-> NilError, out |-> out, decoded |-> FALSE]

\* No response is being handled.
NoRecv == [resp |-> JSONRPCResponse(NilResult, NilRPCError), out |-> NilOut,
           done |-> FALSE, ret |-> [err |-> NilError, out |-> NilOut, decoded |-> FALSE]]

\* --------------------------------------------------------------------- jobs
MaxTimeout == 3          \* the longest timeout given to WaitForJob, in seconds
MaxElapsed == 1          \* the longest time a Call takes, in seconds
pollInterval == 2        \* seconds between two polls
Second == 8              \* clock ticks in a second
MaxJobFrames == 4        \* frames the server sends while a job function runs
MaxJobEvents == 6        \* dials and frames while a job function runs
DialWeight == 2          \* what a dial counts for among these events

JobIDs == {7}
Timeouts == {0, MaxTimeout}

\* JSON texts of a job's result field ("" when the field is absent); the
\* objects among them decode to a map[string]interface{}.
Objects == {"{\"x\":1}"}
ResultFields == {"", "null", "7"} \cup Objects
\* A job's error field: absent, null or a string.
ErrorFields == {"absent", "null", "boom"}

\* What core.get_jobs answers: an empty array, or an array with one job
\* record that has a state, a result field and an error field.
JobRecord(state, res, err) == [kind |-> "job", state |-> state, result |-> res, error |-> err]
EmptyArray == [kind |-> "empty", state |-> "", result |-> "", error |-> "absent"]
NoAnswer == [kind |-> "none", state |-> "", result |-> "", error |-> "absent"]
Running == JobRecord("RUNNING", "", "absent")
Stateless == JobRecord("", "", "absent")
Terminal ==
    {JobRecord("SUCCESS", r, "absent") : r \in ResultFields}
    \cup {JobRecord("FAILED", "", e) : e \in ErrorFields}
    \cup {JobRecord("ABORTED", "", "absent")}
JobAnswers == {Running, Stateless, EmptyArray} \cup Terminal

\* A map[string]interface{} returned by WaitForJob: nil, the decoded result
\* object, or the whole job record.
NilMap == [kind |-> "nil", json |-> "", job |-> NoAnswer]
ObjectMap(json) == [kind |-> "object", json |-> json, job |-> NoAnswer]
JobMap(j) == [kind |-> "job", json |-> "", job |-> j]

\* The errors of WaitForJob and CreateWithJob: the kind, the job id the text
\* names (0 when it names none) and the message it contains.
JobErr(kind, id, msg) == [kind |-> kind, job |-> id, msg |-> msg]
NilErr == JobErr("nil", 0, "")

\* time.Now().After(deadline)
After(now, deadline) == now > deadline

\* Lines 416-419: errMsg is the job's error field when that is a string.
ErrMsg(j) == IF j.error \in {"absent", "null"} THEN "job failed" ELSE j.error

\* Mutant: only the state RUNNING counts as still running.
Switch_Strict(j, jobID) ==
    IF j.state = "SUCCESS"
    THEN [ret |-> TRUE, err |-> NilErr,
          result |-> IF j.result \in Objects THEN ObjectMap(j.result) ELSE JobMap(j)]
    ELSE IF j.state = "ABORTED"
    THEN [ret |-> TRUE, result |-> NilMap, err |-> JobErr("aborted", jobID, "")]
    ELSE IF j.state = "RUNNING"
    THEN [ret |-> FALSE, result |-> NilMap, err |-> NilErr]
    ELSE [ret |-> TRUE, result |-> NilMap, err |-> JobErr("failed", jobID, ErrMsg(j))]

\* Mutant: the whole job record is returned for every successful job.
Switch_NoResult(j, jobID) ==
    IF j.state = "SUCCESS" THEN [ret |-> TRUE, result |-> JobMap(j), err |-> NilErr]
    ELSE IF j.state = "FAILED"
    THEN [ret |-> TRUE, result |-> NilMap, err |-> JobErr("failed", jobID, ErrMsg(j))]
    ELSE IF j.state = "ABORTED"
    THEN [ret |-> TRUE, result |-> NilMap, err |-> JobErr("aborted", jobID, "")]
    ELSE [ret |-> FALSE, result |-> NilMap, err |-> NilErr]

\* Mutant: a failed job is reported with the generic text.
Switch_Generic(j, jobID) ==
    IF j.state = "SUCCESS"
    THEN [ret |-> TRUE, err |-> NilErr,
          result |-> IF j.result \in Objects THEN ObjectMap(j.result) ELSE JobMap(j)]
    ELSE IF j.state = "FAILED"
    THEN [ret |-> TRUE, result |-> NilMap, err |-> JobErr("failed", jobID, "job failed")]
    ELSE IF j.state = "ABORTED"
    THEN [ret |-> TRUE, result |-> NilMap, err |-> JobErr("aborted", jobID, "")]
    ELSE [ret |-> FALSE, result |-> NilMap, err |-> NilErr]

\* Lines 408-423: the switch on the state of the job record j; ret tells
\* whether WaitForJob returns.
Switch(j, jobID) ==
    IF j.state = "SUCCESS"
    THEN [ret |-> TRUE, err |-> NilErr,
          result |-> IF j.result \in Objects THEN ObjectMap(j.result) ELSE JobMap(j)]
    ELSE IF j.state = "FAILED"
    THEN [ret |-> TRUE, result |-> NilMap, err |-> JobErr("failed", jobID, ErrMsg(j))]
    ELSE IF j.state = "ABORTED"
    THEN [ret |-> TRUE, result |-> NilMap, err |-> JobErr("aborted", jobID, "")]
    ELSE [ret |-> FALSE, result |-> NilMap, err |-> NilErr]

\* What a create call returns in its result: a job handle, null, or the
\* finished object.
Handles == JobIDs
CreateResults == {[kind |-> "number", n |-> h] : h \in Handles}
                 \cup {[kind |-> "null", n |-> 0], [kind |-> "object", n |-> 0]}

\* No job is being waited for. The fields: the function called and where it
\* stands; its arguments; the clock and the deadline; whether the caller has
\* cancelled ctx; the job's terminal record once the server has answered with
\* one; the answers the server gave; the job ids asked for; the index in
\* hist of the answer the switch acted on; the waits done; what was returned.
NoJob ==
    [fn |-> "-", pc |-> "idle", jobID |-> 0, timeout |-> 0, now |-> 0,
     deadline |-> 0, cancelled |-> FALSE, final |-> NoAnswer, hist |-> << >>,
     asked |-> << >>, acted |-> 0, waits |-> 0,
     created |-> [kind |-> "none", n |-> 0],
     ret |-> [result |-> NilMap, err |-> NilErr]]

\* ------------------------------------------------------------- query params
MaxCalls == 3            \* builder calls in one chain

Fields == {"id", "name"}
Operators == {"=", "!="}
Values == {"1", "x"}
Numbers == {0, 1, 10}
Selections == {<< >>, <<"id">>, <<"id", "name">>}

\* QueryParams
QueryParams(limit, offset, count, orderBy, select, filters, options) ==
    [Limit |-> limit, Offset |-> offset, Count |-> count, OrderBy |-> orderBy,
     Select |-> select, Filters |-> filters, Options |-> options]

\* NewQueryParams()
NewQueryParams == QueryParams(0, 0, FALSE, << >>, << >>, << >>, << >>)

\* Mutant: the new filter replaces the filters already present.
WithFilter_Replace(q, field, operator, value) ==
    [q EXCEPT !.Filters = <<<<field, operator, value>>>>]

\* q.WithFilter(field, operator, value)
WithFilter(q, field, operator, value) ==
    [q EXCEPT !.Filters = Append(@, <<field, operator, value>>)]

\* q.WithLimit(limit)
WithLimit(q, limit) == [q EXCEPT !.Limit = limit]

\* q.WithOffset(offset)
WithOffset(q, offset) == [q EXCEPT !.Offset = offset]

\* q.WithSelect(fields...)
WithSelect(q, fields) == [q EXCEPT !.Select = fields]

\* No parameters are being built. The fields: the value, the calls made on
\* it, and the name and arguments of the last call.
NoCall == [fn |-> "-", field |-> "", operator |-> "", value |-> "", n |-> 0,
           fields |-> << >>]
NoQuery == [q |-> NewQueryParams, calls |-> 0, last |-> NoCall]

\* ----------------------------------------------------------------- requests
MaxParams == 2           \* the longest slice given as parameter value

\* A Go value given as params, and a value json.Unmarshal stores in an
\* interface{}: t is its dynamic type, s its string (the key of a map), n its
\* number, e its elements (the value of a map). A map has one key.
Node(t, s, n, e) == [t |-> t, s |-> s, n |-> n, e |-> e]
Nil_ == Node("nil", "", 0, << >>)
Str(s) == Node("string", s, 0, << >>)
IntValue(n) == Node("int", "", n, << >>)
Float64(n) == Node("float64", "", n, << >>)
NilSlice == Node("nilslice", "", 0, << >>)
Slice(e) == Node("slice", "", 0, e)
Map(k, v) == Node("map", k, 0, <<v>>)

Scalars == {Nil_} \cup {Str(s) : s \in {"", "key"}} \cup {IntValue(n) : n \in {-1, 0, 1}}
Params ==
    Scalars \cup {NilSlice}
    \cup {Slice(e) : e \in UNION {[1..n -> Scalars] : n \in 0..MaxParams}}
    \cup {Map("name", v) : v \in Scalars}
Methods == {"", "pool.query"}
IDs == {0, 1, 2}

\* A JSON value: null, a string, a number, an array or an object with one member.
JNull == Node("null", "", 0, << >>)
JString(s) == Node("jstring", s, 0, << >>)
JNumber(n) == Node("jnumber", "", n, << >>)
JArray(e) == Node("jarray", "", 0, e)
JObject(k, v) == Node("jobject", k, 0, <<v>>)

\* json.Marshal of a value held in an interface{}
RECURSIVE Marshal(_)
Marshal(v) ==
    IF v.t \in {"nil", "nilslice"} THEN JNull
    ELSE IF v.t = "string" THEN JString(v.s)
    ELSE IF v.t \in {"int", "float64"} THEN JNumber(v.n)
    ELSE IF v.t = "slice" THEN JArray([i \in DOMAIN v.e |-> Marshal(v.e[i])])
    ELSE JObject(v.s, Marshal(v.e[1]))

\* Mutant: every number decodes to zero.
RECURSIVE Unmarshal_Zero(_)
Unmarshal_Zero(j) ==
    IF j.t = "null" THEN Nil_
    ELSE IF j.t = "jstring" THEN Str(j.s)
    ELSE IF j.t = "jnumber" THEN Float64(0)
    ELSE IF j.t = "jarray" THEN Slice([i \in DOMAIN j.e |-> Unmarshal_Zero(j.e[i])])
    ELSE Map(j.s, Unmarshal_Zero(j.e[1]))

\* json.Unmarshal into an interface{}: a number becomes a float64, an array
\* a []interface{}, an object a map[string]interface{}, null stays nil.
RECURSIVE UnmarshalValue(_)
UnmarshalValue(j) ==
    IF j.t = "null" THEN Nil_
    ELSE IF j.t = "jstring" THEN Str(j.s)
    ELSE IF j.t = "jnumber" THEN Float64(j.n)
    ELSE IF j.t = "jarray" THEN Slice([i \in DOMAIN j.e |-> UnmarshalValue(j.e[i])])
    ELSE Map(j.s, UnmarshalValue(j.e[1]))

\* JSONRPCRequest
JSONRPCRequest(jsonrpc, method, params, id) ==
    [JSONRPC |-> jsonrpc, Method |-> method, Params |-> params, ID |-> id]

\* NewRequest(id, method, params)
NewRequest(id, method, params) == JSONRPCRequest("2.0", method, params, id)

\* json.Marshal(req): the members of the object written. params is left out
\* (omitempty) when Params is the nil interface.
MarshalRequest(req) ==
    [jsonrpc |-> JString(req.JSONRPC), method |-> JString(req.Method),
     hasParams |-> req.Params # Nil_, params |-> Marshal(req.Params),
     id |-> JNumber(req.ID)]

\* json.Unmarshal(data, &req): a member that is missing leaves its field zero.
UnmarshalRequest(obj) ==
    JSONRPCRequest(obj.jsonrpc.s, obj.method.s,
                   IF obj.hasParams THEN UnmarshalValue(obj.params) ELSE Nil_,
                   obj.id.n)

\* Two values are equivalent when they are the same JSON value: nil and a nil
\* slice are both null, an int and a float64 are the same number.
RECURSIVE Equivalent(_, _)
Equivalent(a, b) ==
    IF a.t \in {"nil", "nilslice"} THEN b.t \in {"nil", "nilslice"}
    ELSE IF a.t = "string" THEN b.t = "string" /\ a.s = b.s
    ELSE IF a.t \in {"int", "float64"} THEN b.t \in {"int", "float64"} /\ a.n = b.n
    ELSE IF a.t = "slice"
    THEN /\ b.t = "slice" /\ Len(a.e) = Len(b.e)
         /\ \A i \in DOMAIN a.e : Equivalent(a.e[i], b.e[i])
    ELSE b.t = "map" /\ a.s = b.s /\ Equivalent(a.e[1], b.e[1])

\* No request is being built. The fields: the arguments of NewRequest, what
\* it returned, and the request decoded from its encoding.
NoRequest == JSONRPCRequest("", "", Nil_, 0)
NoCodec == [id |-> 0, method |-> "", params |-> Nil_, pc |-> "idle",
            req |-> NoRequest, back |-> NoRequest]

\* ------------------------------------------------------------------ frames
NoResp == [id |-> 0, kind |-> "-"]

\* Close has returned: c.ctx is cancelled (line 284) and no goroutine is
\* inside Close.
Closed ==
    /\ ctxDone
    /\ \A t \in Threads : \A i \in DOMAIN stack[t] : stack[t][i].fn # "Close"

\* A frame: the function, where it stands, and its locals. For Call: the id,
\* the method, the response received, the transport written to and the
\* pending return value; for Connect: the transport it dialed and the error
\* of authenticate.
\* A frame also records whether it was invoked after a Close had returned.
Frame(fn, pc, method) ==
    [fn |-> fn, pc |-> pc, id |-> 0, method |-> method, ret |-> None,
     resp |-> NoResp, tr |-> 0, late |-> Closed]

Top(t) == stack[t][Len(stack[t])]
Below(t) == SubSeq(stack[t], 1, Len(stack[t]) - 1)
At(t, fn, pc) == stack[t] # <<>> /\ Top(t).fn = fn /\ Top(t).pc = pc
SetTop(t, f) == [stack EXCEPT ![t] = Below(t) \o <<f>>]

\* A readResponses goroutine: where it stands, its local conn, the frame it read
SetReader(r, rec) == [reader EXCEPT ![r] = rec]
Started == [pc |-> "top", conn |-> 0, id |-> 0]
Exited == [pc |-> "exit", conn |-> 0, id |-> 0]
Readers == DOMAIN reader

\* The bool a Call decodes into *result (lines 203-207): only "true" sets it.
Decoded(f) == f.resp.kind = "true"

\* The functions that poll a job.
JobFns == {"WaitForJob", "CreateWithJob"}

\* A frame returns v to the frames below it (stk): Call line 164-166 passes a
\* Connect error on and otherwise goes on to line 170; Connect line 136 runs
\* authenticate on what the auth Call returned; WaitForJob (lines 388, 394)
\* and CreateWithJob (line 439) assign what Call returned to err.
RECURSIVE Unwind(_, _, _)
Unwind(stk, v, res) ==
    IF stk = <<>> THEN [stk |-> <<>>, val |-> v]
    ELSE LET p == stk[Len(stk)]
             rest == SubSeq(stk, 1, Len(stk) - 1)
         IN IF p.fn \in JobFns
            THEN [stk |-> rest \o <<[p EXCEPT !.pc = "got", !.ret = v]>>, val |-> None]
            ELSE IF p.fn = "Call"
            THEN IF v.kind = "nil"
                 THEN [stk |-> rest \o <<[p EXCEPT !.pc = "genid"]>>, val |-> None]
                 ELSE Unwind(rest, v, FALSE)
            ELSE LET a == authenticate(v, res)
                 IN IF a.kind = "nil"
                    THEN Unwind(rest, Nil(143), FALSE)
                    ELSE [stk |-> rest \o <<[p EXCEPT !.pc = "close", !.ret = a]>>,
                          val |-> None]

\* No operation returned in this step.
NoResult == [t \in Threads |-> None]

\* goroutine t's innermost frame returns v; when that ends the operation, its
\* caller gets the value.
Return(t, v, res) ==
    LET u == Unwind(Below(t), v, res)
    IN /\ stack' = [stack EXCEPT ![t] = u.stk]
       /\ result' = [NoResult EXCEPT ![t] = u.val]

\* ------------------------------------------------------------------- Init
ClientInit ==
    /\ conn = 0
    /\ connected = FALSE
    /\ connMu = 0
    /\ requestID = 0
    /\ responses = << >>
    /\ responsesMu = 0
    /\ ctxDone = FALSE
    /\ stack = [t \in Threads |-> << >>]
    /\ result = [t \in Threads |-> None]
    /\ tr = << >>
    /\ reader = << >>
    /\ nframes = 0
    /\ nops = 0
    /\ crashed = FALSE

Init ==
    /\ ClientInit
    /\ probe = NoProbe
    /\ recv = NoRecv
    /\ job = NoJob
    /\ query = NoQuery
    /\ codec = NoCodec

\* ------------------------------------------------------- the callers' world
\* A caller invokes Call, Connect or Close. The callers are interchangeable,
\* so the first operation is taken to be caller 1's.
Start(t) ==
    /\ ~crashed /\ stack[t] = << >> /\ nops < MaxOps
    /\ nops = 0 => t = 1
    /\ \E f \in {Frame("Call", "check", "user"), Frame("Connect", "lock", "-"),
                 Frame("Close", "cancel", "-")} :
           stack' = [stack EXCEPT ![t] = <<f>>]
    /\ nops' = nops + 1
    /\ result' = NoResult
    /\ UNCHANGED <<conn, connected, connMu, requestID, responses, responsesMu,
                   ctxDone, tr, reader, nframes, crashed>>
    /\ UNCHANGED aside

\* A job function is running: its caller is the only one, and the context
\* of every Call it makes is the one it was given.
Polling == job.fn \in JobFns
FrameBound == IF Polling THEN MaxJobFrames ELSE MaxFrames
EventBound == IF Polling THEN MaxJobEvents ELSE MaxEvents
\* The dials and frames so far, as counted against EventBound.
DialCost == IF Polling THEN DialWeight ELSE 1
Events == DialCost * Len(tr) + nframes

\* The context an operation was called with may be cancelled: the caller of
\* Call, Connect or Close cancels it at any moment; the context of the job
\* functions is tracked.
CallerDone == Polling => job.cancelled

\* ---------------------------------------------------------------- Connect
\* Mutant: Lock returns although the mutex is held.
Lock_NoWait(mu) == TRUE

\* Line 188, sync.Mutex.Lock: it returns only when the mutex is free
Lock(mu) == mu = 0

\* Mutant: the unlock of line 191, after the write, is missing.
Unlock_NotAfterWrite(mu) ==
    IF mu # 0 /\ stack[mu] # << >> /\ stack[mu][Len(stack[mu])].pc = "write"
    THEN mu ELSE 0

\* Line 191, sync.Mutex.Unlock: the mutex is free again
Unlock(mu) == 0

isConnected == connected

\* Mutant: the early return is taken only once the session is authenticated.
AlreadyConnected_Unauthed(c) == c /\ conn # 0 /\ tr[conn].authed

\* Mutant: Connect never takes the early return.
AlreadyConnected_Never(c) == FALSE

\* Connect line 83: the early return is taken when the client is connected
AlreadyConnected(c) == c

\* The transport a successful dial returns: not closed by the client, no
\* read error seen, no read deadline missed, nothing written, not
\* authenticated.
Dialed == [closed |-> FALSE, broken |-> FALSE, failed |-> FALSE,
           written |-> << >>, authed |-> FALSE]

\* Mutant: the flag is set whatever value is given.
setConnected_True(c, v) == TRUE

\* Lines 306-310: c.connected = connected
setConnected(c, v) == v

\* client.close, line 291: c.setConnected(false)
closeMark == connected' = setConnected(connected, FALSE)

\* client.close, lines 292-297: close the transport and clear c.conn when
\* there is one.
closeClear ==
    IF conn # 0
    THEN /\ tr' = [tr EXCEPT ![conn].closed = TRUE]
         /\ conn' = 0
    ELSE UNCHANGED <<tr, conn>>

\* Lines 81-86: lock connMu; if already connected unlock and return nil.
ConnectLock(t) ==
    /\ ~crashed /\ At(t, "Connect", "lock") /\ connMu = 0
    /\ IF AlreadyConnected(isConnected)
       THEN /\ Return(t, Nil(85), FALSE)
            /\ UNCHANGED connMu
       ELSE /\ connMu' = t
            /\ stack' = SetTop(t, [Top(t) EXCEPT !.pc = "dial"])
            /\ result' = NoResult
    /\ UNCHANGED <<conn, connected, requestID, responses, responsesMu, ctxDone,
                   tr, reader, nframes, nops, crashed>>
    /\ UNCHANGED aside

\* Lines 117-120: the dial fails; Connect returns with connMu still locked.
ConnectDialFail(t) ==
    /\ ~crashed /\ At(t, "Connect", "dial")
    /\ \E cause \in DialCauses :
           /\ cause = "canceled" => CallerDone
           /\ Return(t, NewConnectionError(Host, cause), FALSE)
    /\ UNCHANGED <<conn, connected, connMu, requestID, responses, responsesMu,
                   ctxDone, tr, reader, nframes, nops, crashed>>
    /\ UNCHANGED aside

\* Lines 117-123: the dial succeeds and returns a transport.
ConnectDialOK(t) ==
    /\ ~crashed /\ At(t, "Connect", "dial")
    /\ Len(tr) < MaxDials /\ Events + DialCost <= EventBound
    /\ ~(Polling /\ job.cancelled)
    /\ tr' = Append(tr, Dialed)
    /\ stack' = SetTop(t, [Top(t) EXCEPT !.pc = "store", !.tr = Len(tr) + 1])
    /\ UNCHANGED <<conn, connected, connMu, requestID, responses, responsesMu,
                   ctxDone, reader, nframes, nops, crashed>>
    /\ result' = NoResult
    /\ UNCHANGED aside

\* Line 125: c.conn = conn
ConnectStore(t) ==
    /\ ~crashed /\ At(t, "Connect", "store")
    /\ conn' = Top(t).tr
    /\ stack' = SetTop(t, [Top(t) EXCEPT !.pc = "mark"])
    /\ UNCHANGED <<connected, connMu, requestID, responses, responsesMu,
                   ctxDone, tr, reader, nframes, nops, crashed>>
    /\ result' = NoResult
    /\ UNCHANGED aside

\* Lines 126-136: mark connected, start the reader, unlock and call
\* authenticate.
ConnectMark(t) ==
    /\ ~crashed /\ At(t, "Connect", "mark")
    /\ connected' = setConnected(connected, TRUE)
    /\ reader' = Append(reader, Started)
    /\ connMu' = Unlock(connMu)
    /\ stack' = [stack EXCEPT ![t] =
           Below(t) \o <<[Top(t) EXCEPT !.pc = "auth"],
                         Frame("Call", "check", "auth")>>]
    /\ UNCHANGED <<conn, requestID, responses, responsesMu, ctxDone, tr,
                   nframes, nops, crashed>>
    /\ result' = NoResult
    /\ UNCHANGED aside

\* Lines 136-138 and 291: authenticate failed; lock, and close() marks the
\* client disconnected.
ConnectClose(t) ==
    /\ ~crashed /\ At(t, "Connect", "close") /\ Lock(connMu)
    /\ connMu' = t
    /\ closeMark
    /\ stack' = SetTop(t, [Top(t) EXCEPT !.pc = "clear"])
    /\ UNCHANGED <<conn, requestID, responses, responsesMu, ctxDone, tr,
                   reader, nframes, nops, crashed>>
    /\ result' = NoResult
    /\ UNCHANGED aside

\* Lines 292-297 and 139-140: close() closes and clears c.conn; unlock and
\* return the error of authenticate.
ConnectCleared(t) ==
    /\ ~crashed /\ At(t, "Connect", "clear")
    /\ closeClear
    /\ connMu' = Unlock(connMu)
    /\ Return(t, Top(t).ret, FALSE)
    /\ UNCHANGED <<connected, requestID, responses, responsesMu, ctxDone,
                   reader, nframes, nops, crashed>>
    /\ UNCHANGED aside

\* ------------------------------------------------------------------ Close
\* Line 284: c.cancel()
CloseCancel(t) ==
    /\ ~crashed /\ At(t, "Close", "cancel")
    /\ ctxDone' = TRUE
    /\ stack' = SetTop(t, [Top(t) EXCEPT !.pc = "lock"])
    /\ UNCHANGED <<conn, connected, connMu, requestID, responses, responsesMu,
                   tr, reader, nframes, nops, crashed>>
    /\ result' = NoResult
    /\ UNCHANGED aside

\* Lines 285-287 and 291: lock, and close() marks the client disconnected.
CloseLock(t) ==
    /\ ~crashed /\ At(t, "Close", "lock") /\ Lock(connMu)
    /\ connMu' = t
    /\ closeMark
    /\ stack' = SetTop(t, [Top(t) EXCEPT !.pc = "clear"])
    /\ UNCHANGED <<conn, requestID, responses, responsesMu, ctxDone, tr,
                   reader, nframes, nops, crashed>>
    /\ result' = NoResult
    /\ UNCHANGED aside

\* Lines 292-297 and the deferred unlock of 286: close() closes and clears
\* c.conn. Close returns what close() returns: nil without a transport (297),
\* else the error of c.conn.Close() (293-295), nil or not.
CloseCleared(t) ==
    /\ ~crashed /\ At(t, "Close", "clear")
    /\ closeClear
    /\ connMu' = Unlock(connMu)
    /\ IF conn # 0
       THEN \E e \in {Nil(295), Err("closeFailed", "", "close", 295)} : Return(t, e, FALSE)
       ELSE Return(t, Nil(297), FALSE)
    /\ UNCHANGED <<connected, requestID, responses, responsesMu, ctxDone,
                   reader, nframes, nops, crashed>>
    /\ UNCHANGED aside

\* ------------------------------------------------------------------- Call
\* Lines 163-167: not connected -> Connect first.
CallCheck(t) ==
    /\ ~crashed /\ At(t, "Call", "check")
    /\ IF isConnected
       THEN stack' = SetTop(t, [Top(t) EXCEPT !.pc = "genid"])
       ELSE stack' = [stack EXCEPT ![t] =
                Below(t) \o <<[Top(t) EXCEPT !.pc = "connect"],
                              Frame("Connect", "lock", "-")>>]
    /\ UNCHANGED <<conn, connected, connMu, requestID, responses, responsesMu,
                   ctxDone, tr, reader, nframes, nops, crashed>>
    /\ result' = NoResult
    /\ UNCHANGED aside

\* Mutant: the counter stops at its first id.
NextID_Stuck(n) == IF n = 0 THEN 1 ELSE n

\* Line 170: id := atomic.AddInt64(&c.requestID, 1)
NextID(n) == n + 1

\* Lines 173-176: c.responses[id] = make(chan, 1)
Register(resps, id) ==
    [i \in DOMAIN resps \cup {id} |-> IF i = id THEN << >> ELSE resps[i]]

\* Line 170: take the next id; atomic.AddInt64 waits for nothing.
CallGenID(t) ==
    /\ ~crashed /\ At(t, "Call", "genid")
    /\ requestID' = NextID(requestID)
    /\ stack' = SetTop(t, [Top(t) EXCEPT !.pc = "register", !.id = requestID'])
    /\ UNCHANGED <<conn, connected, connMu, responses, responsesMu, ctxDone, tr,
                   reader, nframes, nops, crashed>>
    /\ result' = NoResult
    /\ UNCHANGED aside

\* Lines 173-176: register the channel of the id under responsesMu.
CallRegister(t) ==
    /\ ~crashed /\ At(t, "Call", "register") /\ responsesMu = 0
    /\ responses' = Register(responses, Top(t).id)
    /\ stack' = SetTop(t, [Top(t) EXCEPT !.pc = "lock"])
    /\ UNCHANGED <<conn, connected, connMu, requestID, responsesMu, ctxDone, tr,
                   reader, nframes, nops, crashed>>
    /\ result' = NoResult
    /\ UNCHANGED aside

\* Line 188: c.connMu.Lock()
CallLock(t) ==
    /\ ~crashed /\ At(t, "Call", "lock") /\ Lock(connMu)
    /\ connMu' = t
    /\ stack' = SetTop(t, [Top(t) EXCEPT !.pc = "write"])
    /\ UNCHANGED <<conn, connected, requestID, responses, responsesMu, ctxDone,
                   tr, reader, nframes, nops, crashed>>
    /\ result' = NoResult
    /\ UNCHANGED aside

\* Lines 189-191 with c.conn nil: nil pointer dereference. The panic unwinds
\* through the deferred delete; connMu stays locked.
CallWritePanic(t) ==
    /\ ~crashed /\ At(t, "Call", "write") /\ conn = 0
    /\ stack' = SetTop(t, [Top(t) EXCEPT !.pc = "defer",
                                         !.ret = Err("panic", "", "nil conn", 189)])
    /\ UNCHANGED <<conn, connected, connMu, requestID, responses, responsesMu,
                   ctxDone, tr, reader, nframes, nops, crashed>>
    /\ result' = NoResult
    /\ UNCHANGED aside

\* Lines 189-191: the request is written on c.conn.
CallWriteOK(t) ==
    /\ ~crashed /\ At(t, "Call", "write") /\ conn # 0 /\ ~tr[conn].closed
    /\ tr' = [tr EXCEPT ![conn].written =
                 Append(@, [id |-> Top(t).id, method |-> Top(t).method])]
    /\ connMu' = Unlock(connMu)
    /\ stack' = SetTop(t, [Top(t) EXCEPT !.pc = "wait", !.tr = conn])
    /\ UNCHANGED <<conn, connected, requestID, responses, responsesMu, ctxDone,
                   reader, nframes, nops, crashed>>
    /\ result' = NoResult
    /\ UNCHANGED aside

\* Lines 189-195: WriteJSON fails (closed or broken transport, write deadline).
CallWriteFail(t) ==
    /\ ~crashed /\ At(t, "Call", "write") /\ conn # 0
    /\ connMu' = Unlock(connMu)
    /\ stack' = SetTop(t, [Top(t) EXCEPT !.pc = "defer",
                                         !.ret = Err("sendFailed", "", "write", 194)])
    /\ UNCHANGED <<conn, connected, requestID, responses, responsesMu, ctxDone,
                   tr, reader, nframes, nops, crashed>>
    /\ result' = NoResult
    /\ UNCHANGED aside

\* Lines 199-208: what Call returns for the response it received
Outcome(resp) ==
    IF resp.kind = "error" THEN Err("APIError", "", "wire", 201)
    ELSE IF resp.kind = "bad" THEN Err("unmarshal", "", "decode", 205)
    ELSE Nil(208)

\* Line 199: case resp := <-respChan. A channel holds the ids of the frames
\* sent on it; what the server put in the frame (a result that is true, false
\* or no boolean, or an error) is read here for the first time and is any of
\* Kinds.
CallRecv(t) ==
    /\ ~crashed /\ At(t, "Call", "wait") /\ responses[Top(t).id] # << >>
    /\ \E kind \in Kinds :
        LET resp == [id |-> Head(responses[Top(t).id]), kind |-> kind]
        IN /\ responses' = [responses EXCEPT ![Top(t).id] = Tail(@)]
           /\ stack' = SetTop(t, [Top(t) EXCEPT !.pc = "defer", !.resp = resp,
                                                !.ret = Outcome(resp)])
    /\ UNCHANGED <<conn, connected, connMu, requestID, responsesMu, ctxDone,
                   tr, reader, nframes, nops, crashed>>
    /\ result' = NoResult
    /\ UNCHANGED aside

\* Line 209: case <-ctx.Done(). The caller cancels the context of its operation
\* at any moment; the select sees it here. (The dial is the only other reader
\* of the context: there a cancellation is one of DialCauses.)
CallCtxDone(t) ==
    /\ ~crashed /\ At(t, "Call", "wait") /\ CallerDone
    /\ stack' = SetTop(t, [Top(t) EXCEPT !.pc = "defer",
                                         !.ret = Err("canceled", "", "", 210)])
    /\ UNCHANGED <<conn, connected, connMu, requestID, responses, responsesMu,
                   ctxDone, tr, reader, nframes, nops, crashed>>
    /\ result' = NoResult
    /\ UNCHANGED aside

\* Line 211: case <-time.After(c.timeout)
CallTimeout(t) ==
    /\ ~crashed /\ At(t, "Call", "wait")
    /\ stack' = SetTop(t, [Top(t) EXCEPT !.pc = "defer",
                                         !.ret = Err("timeout", "", "", 212)])
    /\ UNCHANGED <<conn, connected, connMu, requestID, responses, responsesMu,
                   ctxDone, tr, reader, nframes, nops, crashed>>
    /\ result' = NoResult
    /\ UNCHANGED aside

\* Mutant: the deferred cleanup leaves the id registered.
Unregister_Keep(resps, id) == resps

\* Mutant: the deferred cleanup empties the routing table.
Unregister_All(resps, id) == << >>

\* Line 180: delete(c.responses, id)
Unregister(resps, id) == [i \in DOMAIN resps \ {id} |-> resps[i]]

\* Lines 178-182: the deferred cleanup, then the return (or, for a panic, the
\* end of the process). An auth call that returns true authenticates the
\* transport its request was written on.
CallDefer(t) ==
    /\ ~crashed /\ At(t, "Call", "defer") /\ responsesMu = 0
    /\ responses' = Unregister(responses, Top(t).id)
    /\ IF Top(t).ret.kind = "panic"
       THEN /\ crashed' = TRUE
            /\ result' = NoResult
            /\ stack' = SetTop(t, [Top(t) EXCEPT !.pc = "panicked"])
       ELSE /\ Return(t, Top(t).ret, Decoded(Top(t)))
            /\ UNCHANGED crashed
    /\ tr' = IF Top(t).method = "auth" /\ Top(t).ret.kind = "nil" /\ Decoded(Top(t))
             THEN [tr EXCEPT ![Top(t).tr].authed = TRUE]
             ELSE tr
    /\ UNCHANGED <<conn, connected, connMu, requestID, responsesMu, ctxDone,
                   reader, nframes, nops>>
    /\ UNCHANGED aside

\* ---------------------------------------------------------- readResponses
\* Lines 221-226: return if c.ctx is done, else go on to line 229.
ReaderTop(r) ==
    /\ ~crashed /\ r \in Readers /\ reader[r].pc = "top"
    /\ reader' = SetReader(r, IF ctxDone THEN Exited
                                 ELSE [reader[r] EXCEPT !.pc = "lock"])
    /\ UNCHANGED <<conn, connected, connMu, requestID, responses, responsesMu,
                   ctxDone, stack, tr, nframes, nops, crashed>>
    /\ result' = NoResult
    /\ UNCHANGED aside

\* Lines 229-235: conn := c.conn under connMu; return if it is nil.
ReaderConn(r) ==
    /\ ~crashed /\ r \in Readers /\ reader[r].pc = "lock"
    /\ connMu = 0
    /\ reader' = SetReader(r, IF conn = 0 THEN Exited
                                 ELSE [reader[r] EXCEPT !.pc = "read", !.conn = conn])
    /\ UNCHANGED <<conn, connected, connMu, requestID, responses, responsesMu,
                   ctxDone, stack, tr, nframes, nops, crashed>>
    /\ result' = NoResult
    /\ UNCHANGED aside

\* The ids the server may answer on transport k: those of the requests written
\* on it, and 0 for a frame that carries no id of a request.
Answerable(k) == {0} \cup {tr[k].written[i].id : i \in DOMAIN tr[k].written}

\* Line 238, ReadJSON returns a frame: the server answers some request on this
\* transport, in any order, possibly more than once.
ReaderReadFrame(r) ==
    /\ ~crashed /\ r \in Readers /\ reader[r].pc = "read"
    /\ nframes < FrameBound /\ Events < EventBound
    /\ LET k == reader[r].conn
       IN /\ ~tr[k].closed /\ ~tr[k].broken /\ ~tr[k].failed
          /\ \E id \in Answerable(k) :
                reader' = SetReader(r, [reader[r] EXCEPT !.pc = "refresh", !.id = id])
    /\ nframes' = nframes + 1
    /\ UNCHANGED <<conn, connected, connMu, requestID, responses, responsesMu,
                   ctxDone, stack, tr, nops, crashed>>
    /\ result' = NoResult
    /\ UNCHANGED aside

\* Lines 238-242 and 259-261: ReadJSON fails with a close error or another
\* error that is no timeout (always so on a transport the client closed,
\* unless an earlier read of it timed out): mark disconnected and return.
ReaderReadError(r) ==
    /\ ~crashed /\ r \in Readers /\ reader[r].pc = "read"
    /\ LET k == reader[r].conn
       IN /\ ~tr[k].failed
          /\ tr' = [tr EXCEPT ![k].broken = TRUE]
    /\ connected' = FALSE
    /\ reader' = SetReader(r, Exited)
    /\ UNCHANGED <<conn, connMu, requestID, responses, responsesMu, ctxDone,
                   stack, nframes, nops, crashed>>
    /\ result' = NoResult
    /\ UNCHANGED aside

\* Mutant: a read timeout ends the goroutine like a transport error would,
\* but without the disconnected mark.
Continue_GiveUp(rec) == Exited

\* Line 256: continue, the goroutine goes back to the top of its loop.
Continue(rec) == [rec EXCEPT !.pc = "top"]

\* Lines 238, 244-249: ReadJSON returns a timeout: the read deadline passed,
\* or an earlier read of this transport timed out (the websocket connection
\* keeps its first read error and returns it for every later read). Return
\* if the client is shut down, else go on to line 251.
ReaderReadTimeout(r) ==
    /\ ~crashed /\ r \in Readers /\ reader[r].pc = "read"
    /\ LET k == reader[r].conn
       IN /\ tr[k].failed \/ (~tr[k].closed /\ ~tr[k].broken)
          /\ tr' = [tr EXCEPT ![k].failed = TRUE]
    /\ reader' = SetReader(r, IF ctxDone THEN Exited
                                 ELSE [reader[r] EXCEPT !.pc = "timedout"])
    /\ UNCHANGED <<conn, connected, connMu, requestID, responses, responsesMu,
                   ctxDone, stack, nframes, nops, crashed>>
    /\ result' = NoResult
    /\ UNCHANGED aside

\* Lines 251-256: refresh the deadline of c.conn under connMu and continue.
ReaderContinue(r) ==
    /\ ~crashed /\ r \in Readers /\ reader[r].pc = "timedout"
    /\ connMu = 0
    /\ reader' = SetReader(r, Continue(reader[r]))
    /\ UNCHANGED <<conn, connected, connMu, requestID, responses, responsesMu,
                   ctxDone, stack, tr, nframes, nops, crashed>>
    /\ result' = NoResult
    /\ UNCHANGED aside

\* Line 238 on a transport whose read has failed before: the websocket
\* connection counts the reads made after its first read error and panics
\* when they are too many ("repeated read on failed websocket connection").
\* The reader loops without waiting, so this is any of its later reads.
ReaderReadPanic(r) ==
    /\ ~crashed /\ r \in Readers /\ reader[r].pc = "read"
    /\ tr[reader[r].conn].failed
    /\ crashed' = TRUE
    /\ reader' = SetReader(r, [reader[r] EXCEPT !.pc = "panicked"])
    /\ UNCHANGED <<conn, connected, connMu, requestID, responses, responsesMu,
                   ctxDone, stack, tr, nframes, nops>>
    /\ result' = NoResult
    /\ UNCHANGED aside

\* Mutant: a frame whose id is not registered goes to some pending call.
RouteKey_Fallback(resps, id) ==
    IF id \in DOMAIN resps \/ DOMAIN resps = {} THEN id
    ELSE CHOOSE k \in DOMAIN resps : TRUE

\* Mutant: frames are handed out in order of arrival, to the oldest pending call.
RouteKey_Arrival(resps, id) ==
    IF DOMAIN resps = {} THEN id
    ELSE CHOOSE k \in DOMAIN resps : \A j \in DOMAIN resps : k <= j

\* Line 274: the channel a frame is routed to is the one registered under the
\* frame's own id
RouteKey(resps, id) == id

\* Lines 266-270: refresh the deadline of c.conn under connMu.
ReaderRefresh(r) ==
    /\ ~crashed /\ r \in Readers /\ reader[r].pc = "refresh"
    /\ connMu = 0
    /\ reader' = SetReader(r, [reader[r] EXCEPT !.pc = "route"])
    /\ UNCHANGED <<conn, connected, connMu, requestID, responses, responsesMu,
                   ctxDone, stack, tr, nframes, nops, crashed>>
    /\ result' = NoResult
    /\ UNCHANGED aside

\* Lines 273-278: route the frame under responsesMu. The send on a full
\* channel blocks with responsesMu held.
ReaderRoute(r) ==
    /\ ~crashed /\ r \in Readers /\ reader[r].pc = "route"
    /\ responsesMu = 0
    /\ LET key == RouteKey(responses, reader[r].id)
           f == reader[r].id
       IN IF key \in DOMAIN responses
          THEN IF responses[key] = << >>
               THEN /\ responses' = [responses EXCEPT ![key] = <<f>>]
                    /\ reader' = SetReader(r, [reader[r] EXCEPT !.pc = "top", !.id = 0])
                    /\ UNCHANGED responsesMu
               ELSE /\ responsesMu' = r
                    /\ reader' = SetReader(r, [reader[r] EXCEPT !.pc = "send"])
                    /\ UNCHANGED responses
          ELSE /\ reader' = SetReader(r, [reader[r] EXCEPT !.pc = "top", !.id = 0])
               /\ UNCHANGED <<responses, responsesMu>>
    /\ UNCHANGED <<conn, connected, connMu, requestID, ctxDone, stack,
                   tr, nframes, nops, crashed>>
    /\ result' = NoResult
    /\ UNCHANGED aside

\* Line 275 completing after the waiter drained the channel, then line 278
ReaderSend(r) ==
    /\ ~crashed /\ r \in Readers /\ reader[r].pc = "send"
    /\ LET key == RouteKey(responses, reader[r].id)
           f == reader[r].id
       IN /\ responses[key] = << >>
          /\ responses' = [responses EXCEPT ![key] = <<f>>]
    /\ responsesMu' = 0
    /\ reader' = SetReader(r, [reader[r] EXCEPT !.pc = "top", !.id = 0])
    /\ UNCHANGED <<conn, connected, connMu, requestID, ctxDone, stack,
                   tr, nframes, nops, crashed>>
    /\ result' = NoResult
    /\ UNCHANGED aside

\* ------------------------------------------------------------ specification
Next ==
    \/ \E t \in Threads : Start(t)
    \/ \E t \in Threads : ConnectLock(t)
    \/ \E t \in Threads : ConnectDialFail(t)
    \/ \E t \in Threads : ConnectDialOK(t)
    \/ \E t \in Threads : ConnectStore(t)
    \/ \E t \in Threads : ConnectMark(t)
    \/ \E t \in Threads : ConnectClose(t)
    \/ \E t \in Threads : ConnectCleared(t)
    \/ \E t \in Threads : CloseCancel(t)
    \/ \E t \in Threads : CloseLock(t)
    \/ \E t \in Threads : CloseCleared(t)
    \/ \E t \in Threads : CallCheck(t)
    \/ \E t \in Threads : CallGenID(t)
    \/ \E t \in Threads : CallRegister(t)
    \/ \E t \in Threads : CallLock(t)
    \/ \E t \in Threads : CallWritePanic(t)
    \/ \E t \in Threads : CallWriteOK(t)
    \/ \E t \in Threads : CallWriteFail(t)
    \/ \E t \in Threads : CallRecv(t)
    \/ \E t \in Threads : CallCtxDone(t)
    \/ \E t \in Threads : CallTimeout(t)
    \/ \E t \in Threads : CallDefer(t)
    \/ \E r \in 1..MaxDials : ReaderTop(r)
    \/ \E r \in 1..MaxDials : ReaderConn(r)
    \/ \E r \in 1..MaxDials : ReaderReadFrame(r)
    \/ \E r \in 1..MaxDials : ReaderReadError(r)
    \/ \E r \in 1..MaxDials : ReaderReadTimeout(r)
    \/ \E r \in 1..MaxDials : ReaderContinue(r)
    \/ \E r \in 1..MaxDials : ReaderReadPanic(r)
    \/ \E r \in 1..MaxDials : ReaderRefresh(r)
    \/ \E r \in 1..MaxDials : ReaderRoute(r)
    \/ \E r \in 1..MaxDials : ReaderSend(r)

Spec == Init /\ [][Next]_vars

\* ------------------------------------------------- classifier specification
\* The classifier is a pure function of the error: the client is left as
\* constructed, an error is drawn and the predicates are applied to it.
InitClassify ==
    /\ ClientInit
    /\ \E impl \in Impls, err \in Errors :
           probe = [impl |-> impl, err |-> err, asked |-> FALSE, out |-> NoVerdict]
    /\ recv = NoRecv
    /\ job = NoJob
    /\ query = NoQuery
    /\ codec = NoCodec

Classify ==
    /\ ~probe.asked
    /\ probe' = [probe EXCEPT !.asked = TRUE, !.out = Verdict(probe.impl, probe.err)]
    /\ UNCHANGED <<clientVars, butProbe>>

NextClassify == Classify

SpecClassify == InitClassify /\ [][NextClassify]_vars

\* --------------------------------------------------- response specification
\* What Call does with the response it received is a function of the
\* response and of the caller's output: both are drawn, then lines 199-208 run.
InitReceive ==
    /\ ClientInit
    /\ probe = NoProbe
    /\ \E resp \in Responses, out \in Outs :
           recv = [NoRecv EXCEPT !.resp = resp, !.out = out]
    /\ job = NoJob
    /\ query = NoQuery
    /\ codec = NoCodec

CallReceive ==
    /\ ~recv.done
    /\ recv' = [recv EXCEPT !.done = TRUE, !.ret = Receive(recv.resp, recv.out)]
    /\ UNCHANGED <<clientVars, butRecv>>

NextReceive == CallReceive

SpecReceive == InitReceive /\ [][NextReceive]_vars

\* ---------------------------------------------------------- job specification
\* One goroutine, the caller, calls WaitForJob or CreateWithJob on a fresh
\* client. Every Call they make is the Call of the client above, with its
\* Connect and the reader goroutines it starts.
Caller == CHOOSE t \in Threads : \A u \in Threads : t <= u

InitJob ==
    /\ ClientInit
    /\ probe = NoProbe
    /\ recv = NoRecv
    /\ \E fn \in JobFns, id \in JobIDs, timeout \in Timeouts :
           job = [NoJob EXCEPT !.fn = fn,
                               !.pc = IF fn = "CreateWithJob" THEN "create" ELSE "start",
                               !.jobID = IF fn = "WaitForJob" THEN id ELSE 0,
                               !.timeout = timeout]
    /\ query = NoQuery
    /\ codec = NoCodec

\* c.Call(ctx, method, ...) is entered from a job function.
EnterCall(method) ==
    /\ ~crashed /\ stack[Caller] = << >>
    /\ stack' = [stack EXCEPT ![Caller] = <<Frame(job.fn, "call", method),
                                            Frame("Call", "check", method)>>]
    /\ result' = NoResult
    /\ UNCHANGED <<conn, connected, connMu, requestID, responses, responsesMu,
                   ctxDone, tr, reader, nframes, nops, crashed>>

\* The Call has returned to the job function; its error is Top(Caller).ret.
Called ==
    /\ ~crashed /\ At(Caller, job.fn, "got")
    /\ stack' = [stack EXCEPT ![Caller] = << >>]
    /\ result' = NoResult
    /\ UNCHANGED <<conn, connected, connMu, requestID, responses, responsesMu,
                   ctxDone, tr, reader, nframes, nops, crashed>>

\* The whole seconds a Call may take, from its entry to its return: none
\* when it is answered at once, more when it dials, waits for its answer or
\* runs into its timeout.
Elapsed == 0..MaxElapsed

\* The job records the server may answer with: a job that reached a
\* terminal state keeps it.
Answers == IF job.final # NoAnswer THEN {job.final} ELSE JobAnswers

\* WaitForJob or CreateWithJob returns.
JobReturn(j, res, err) == [j EXCEPT !.pc = "done", !.ret = [result |-> res, err |-> err]]

\* The server answered a: it is the next of hist.
Answered(j, a) ==
    [j EXCEPT !.hist = Append(@, a), !.final = IF a \in Terminal THEN a ELSE @]

\* Mutant: the handle of the create call is lost.
Int64_Zero(c) == 0

\* int64(jobID), line 444: jobID is the float64 the create result was decoded
\* into, which stays 0 for a null result.
Int64(c) == IF c.kind = "number" THEN c.n ELSE 0

\* Line 439 of CreateWithJob: the create call is made.
CreateCall ==
    /\ job.pc = "create"
    /\ EnterCall("create")
    /\ job' = [job EXCEPT !.pc = "created"]
    /\ UNCHANGED butJob

\* Lines 439-444 of CreateWithJob: the create call has returned; its result
\* was decoded into a float64.
CreateCalled ==
    /\ job.pc = "created"
    /\ Called
    /\ \E d \in Elapsed :
        LET v == Top(Caller).ret
            j == [job EXCEPT !.now = @ + d * Second]
        IN IF v.kind = "unmarshal"
           THEN job' = JobReturn([j EXCEPT !.created = [kind |-> "object", n |-> 0]],
                                 NilMap, JobErr("unmarshal", 0, ""))
           ELSE IF v.kind # "nil"
           THEN job' = JobReturn(j, NilMap, JobErr("call", 0, ""))
           ELSE \E c \in CreateResults \ {[kind |-> "object", n |-> 0]} :
                   job' = [j EXCEPT !.created = c, !.pc = "start", !.jobID = Int64(c)]
    /\ UNCHANGED butJob

\* Lines 379-380: deadline := time.Now().Add(timeout)
WaitStart ==
    /\ job.pc = "start" /\ ~crashed
    /\ job' = [job EXCEPT !.pc = "check", !.deadline = job.now + job.timeout * Second]
    /\ UNCHANGED <<clientVars, butJob>>

\* Lines 383-385: time.Now() is later than every clock reading before it.
WaitCheck ==
    /\ job.pc = "check" /\ ~crashed
    /\ LET j == [job EXCEPT !.now = @ + 1]
       IN job' = IF After(j.now, j.deadline)
                 THEN JobReturn(j, NilMap, JobErr("timeout", job.jobID, ""))
                 ELSE [j EXCEPT !.pc = "query1"]
    /\ UNCHANGED <<clientVars, butJob>>

\* Line 388: the first core.get_jobs call of the round is made.
WaitQueryFirst ==
    /\ job.pc = "query1"
    /\ EnterCall("core.get_jobs")
    /\ job' = [job EXCEPT !.pc = "called1", !.asked = Append(@, job.jobID)]
    /\ UNCHANGED butJob

\* Lines 387-390: the first call has returned. Its result and its error are
\* overwritten by the second call. The server answered when Call received a
\* result, decoded or not.
WaitQueryFirstCalled ==
    /\ job.pc = "called1"
    /\ Called
    /\ \E d \in Elapsed :
        LET j == [job EXCEPT !.now = @ + d * Second, !.pc = "query2"]
        IN IF Top(Caller).ret.kind \in {"nil", "unmarshal"}
           THEN \E a \in Answers : job' = Answered(j, a)
           ELSE job' = j
    /\ UNCHANGED butJob

\* Line 394: the second core.get_jobs call of the round is made.
WaitQuery ==
    /\ job.pc = "query2"
    /\ EnterCall("core.get_jobs")
    /\ job' = [job EXCEPT !.pc = "called2", !.asked = Append(@, job.jobID)]
    /\ UNCHANGED butJob

\* Lines 393-423: the second call has returned; the switch on the state of
\* the job it returned.
WaitQueryCalled ==
    /\ job.pc = "called2"
    /\ Called
    /\ \E d \in Elapsed :
        LET j == [job EXCEPT !.now = @ + d * Second]
        IN IF Top(Caller).ret.kind # "nil"
           THEN job' = JobReturn(j, NilMap, JobErr("query", 0, ""))
           ELSE \E a \in Answers :
                  LET k == Answered(j, a)
                      sw == Switch(a, job.jobID)
                  IN job' = IF a.kind = "empty"
                            THEN JobReturn(k, NilMap, JobErr("notFound", job.jobID, ""))
                            ELSE IF sw.ret
                            THEN JobReturn([k EXCEPT !.acted = Len(k.hist)],
                                           sw.result, sw.err)
                            ELSE [k EXCEPT !.acted = Len(k.hist), !.pc = "wait"]
    /\ UNCHANGED butJob

\* Mutant: the select never sees the cancellation.
Done_Never(j) == FALSE

\* <-ctx.Done() is ready: ctx is cancelled.
Done(j) == j.cancelled

\* Line 428: the poll interval passes before ctx is cancelled.
WaitElapsed ==
    /\ job.pc = "wait" /\ ~Done(job) /\ ~crashed
    /\ job' = [job EXCEPT !.pc = "check", !.now = @ + pollInterval * Second,
                          !.waits = @ + 1]
    /\ UNCHANGED <<clientVars, butJob>>

\* Lines 426-427: ctx is cancelled before the poll interval has passed.
WaitCancelled ==
    /\ job.pc = "wait" /\ Done(job) /\ ~crashed
    /\ job' = JobReturn(job, NilMap, JobErr("canceled", 0, ""))
    /\ UNCHANGED <<clientVars, butJob>>

\* The caller cancels ctx. Three statements look at ctx: the dial (line
\* 117), the select of Call (line 209) and the select of WaitForJob (line
\* 426); a cancellation takes effect at the next of them, and is taken here
\* to come when the caller has reached it.
Cancel ==
    /\ ~job.cancelled /\ ~crashed
    /\ \/ job.pc = "wait"
       \/ At(Caller, "Call", "wait")
       \/ At(Caller, "Connect", "dial")
    /\ job' = [job EXCEPT !.cancelled = TRUE]
    /\ UNCHANGED <<clientVars, butJob>>

\* The steps of WaitForJob and CreateWithJob themselves.
JobStep ==
    \/ CreateCall
    \/ CreateCalled
    \/ WaitStart
    \/ WaitCheck
    \/ WaitQueryFirst
    \/ WaitQueryFirstCalled
    \/ WaitQuery
    \/ WaitQueryCalled
    \/ WaitElapsed
    \/ WaitCancelled

\* The steps of the caller inside Call and Connect. (With one caller c.conn
\* is set whenever Call writes.)
CallerStep ==
    \/ ConnectLock(Caller)
    \/ ConnectDialFail(Caller)
    \/ ConnectDialOK(Caller)
    \/ ConnectStore(Caller)
    \/ ConnectMark(Caller)
    \/ ConnectClose(Caller)
    \/ ConnectCleared(Caller)
    \/ CallCheck(Caller)
    \/ CallGenID(Caller)
    \/ CallRegister(Caller)
    \/ CallLock(Caller)
    \/ CallWriteOK(Caller)
    \/ CallWriteFail(Caller)
    \/ CallRecv(Caller)
    \/ CallCtxDone(Caller)
    \/ CallTimeout(Caller)
    \/ CallDefer(Caller)

\* The steps of the reader goroutines.
ReaderStep ==
    \/ \E r \in 1..MaxDials : ReaderTop(r)
    \/ \E r \in 1..MaxDials : ReaderConn(r)
    \/ \E r \in 1..MaxDials : ReaderReadFrame(r)
    \/ \E r \in 1..MaxDials : ReaderReadError(r)
    \/ \E r \in 1..MaxDials : ReaderReadTimeout(r)
    \/ \E r \in 1..MaxDials : ReaderContinue(r)
    \/ \E r \in 1..MaxDials : ReaderReadPanic(r)
    \/ \E r \in 1..MaxDials : ReaderRefresh(r)
    \/ \E r \in 1..MaxDials : ReaderRoute(r)
    \/ \E r \in 1..MaxDials : ReaderSend(r)

NextJob == JobStep \/ Cancel \/ CallerStep \/ ReaderStep

SpecJob == InitJob /\ [][NextJob]_vars

\* ------------------------------------------------ query params specification
\* A chain of builder calls on a QueryParams value: the value of
\* NewQueryParams, or one whose Count and OrderBy the caller has set.
InitQuery ==
    /\ ClientInit
    /\ probe = NoProbe
    /\ recv = NoRecv
    /\ job = NoJob
    /\ \E count \in BOOLEAN, orderBy \in {<< >>, <<"name">>} :
           query = [NoQuery EXCEPT !.q = QueryParams(0, 0, count, orderBy, << >>, << >>, << >>)]
    /\ codec = NoCodec

CallWithFilter ==
    /\ query.calls < MaxCalls
    /\ \E f \in Fields, o \in Operators, v \in Values :
           query' = [q |-> WithFilter(query.q, f, o, v), calls |-> query.calls + 1,
                     last |-> [NoCall EXCEPT !.fn = "WithFilter", !.field = f,
                                             !.operator = o, !.value = v]]
    /\ UNCHANGED <<clientVars, butQuery>>

CallWithLimit ==
    /\ query.calls < MaxCalls
    /\ \E n \in Numbers :
           query' = [q |-> WithLimit(query.q, n), calls |-> query.calls + 1,
                     last |-> [NoCall EXCEPT !.fn = "WithLimit", !.n = n]]
    /\ UNCHANGED <<clientVars, butQuery>>

CallWithOffset ==
    /\ query.calls < MaxCalls
    /\ \E n \in Numbers :
           query' = [q |-> WithOffset(query.q, n), calls |-> query.calls + 1,
                     last |-> [NoCall EXCEPT !.fn = "WithOffset", !.n = n]]
    /\ UNCHANGED <<clientVars, butQuery>>

CallWithSelect ==
    /\ query.calls < MaxCalls
    /\ \E s \in Selections :
           query' = [q |-> WithSelect(query.q, s), calls |-> query.calls + 1,
                     last |-> [NoCall EXCEPT !.fn = "WithSelect", !.fields = s]]
    /\ UNCHANGED <<clientVars, butQuery>>

NextQuery == CallWithFilter \/ CallWithLimit \/ CallWithOffset \/ CallWithSelect

SpecQuery == InitQuery /\ [][NextQuery]_vars

\* ---------------------------------------------------- request specification
\* A request is built for an id, a method and a parameter value, encoded and
\* decoded again.
InitCodec ==
    /\ ClientInit
    /\ probe = NoProbe
    /\ recv = NoRecv
    /\ job = NoJob
    /\ query = NoQuery
    /\ \E id \in IDs, method \in Methods, params \in Params :
           codec = [NoCodec EXCEPT !.id = id, !.method = method, !.params = params,
                                   !.pc = "new"]

CallNewRequest ==
    /\ codec.pc = "new"
    /\ codec' = [codec EXCEPT !.pc = "built",
                              !.req = NewRequest(codec.id, codec.method, codec.params)]
    /\ UNCHANGED <<clientVars, butCodec>>

EncodeDecode ==
    /\ codec.pc = "built"
    /\ codec' = [codec EXCEPT !.pc = "decoded",
                              !.back = UnmarshalRequest(MarshalRequest(codec.req))]
    /\ UNCHANGED <<clientVars, butCodec>>

NextCodec == CallNewRequest \/ EncodeDecode

SpecCodec == InitCodec /\ [][NextCodec]_vars

\* ------------------------------------------------------------------ claims
\* The Call frames on the goroutines' stacks
Calls ==
    UNION {{<<t, i>> : i \in {j \in DOMAIN stack[t] : stack[t][j].fn = "Call"}} : t \in Threads}
FrameOf(c) == stack[c[1]][c[2]]

\* C1: every call that has received a response has received the response that
\* carries the id of its own request, whatever the order of arrival.
C1_Correlation ==
    \A c \in Calls : FrameOf(c).resp # NoResp => FrameOf(c).resp.id = FrameOf(c).id

\* Two calls in flight together have both received their own responses.
C1_Witness ==
    \E t1, t2 \in Threads :
        /\ t1 # t2
        /\ At(t1, "Call", "defer") /\ Top(t1).resp.id = Top(t1).id /\ Top(t1).id # 0
        /\ At(t2, "Call", "defer") /\ Top(t2).resp.id = Top(t2).id /\ Top(t2).id # 0

\* A goroutine that is inside Call, at any depth
InCall(t) == \E i \in DOMAIN stack[t] : stack[t][i].fn = "Call"

\* C2: every Call returns: no behaviour ends with a Call (or the Connect it
\* triggered) still in progress while the process is alive. Dials, writes and
\* timeouts are never withheld, so a state without a next step in which a Call
\* is in progress is a Call that is blocked forever.
C2_CallReturns ==
    \A t \in Threads : (InCall(t) /\ ~crashed) => ENABLED Next

\* The ids of the calls between registration and the end of the cleanup
InFlight ==
    {FrameOf(c).id : c \in {d \in Calls : FrameOf(d).pc \in {"lock", "write", "wait", "defer"}}}

\* C3: the routing table holds only ids of calls that are still in flight: the
\* id of a call that returned is absent, and with no call in flight the table
\* is empty.
C3_NoLeak == DOMAIN responses \subseteq InFlight

\* A call that registered an id has just returned, through any of its exits,
\* and the table is empty.
C3_Witness ==
    \E t \in Threads :
        /\ result[t].at \in {194, 201, 205, 208, 210, 212}
        /\ requestID > 0 /\ DOMAIN responses = {}

\* No frame with the id of the call of t is in its channel or in a reader's hand
Unanswered(t) ==
    /\ Top(t).id \in DOMAIN responses /\ responses[Top(t).id] = << >>
    /\ \A r \in Readers : reader[r].id # Top(t).id

\* C4: a Call that left its wait because its context was cancelled, with no
\* response delivered to it, returns: no behaviour ends with it still inside
\* its deferred cleanup.
C4_CancelReturns ==
    \A t \in Threads :
        (At(t, "Call", "defer") /\ Top(t).ret.kind = "canceled" /\ Unanswered(t) /\ ~crashed)
            => ENABLED Next

\* C5: a Call whose request was written, that got no response and whose timeout
\* elapsed returns the timeout error: no behaviour ends with it still inside
\* its deferred cleanup.
C5_TimeoutReturns ==
    \A t \in Threads :
        (At(t, "Call", "defer") /\ Top(t).ret.kind = "timeout" /\ Unanswered(t) /\ ~crashed)
            => ENABLED Next

\* C6: a step of Connect taken in the connected state returns nil to its
\* caller and changes neither the transport handle, the transports (nothing is
\* dialed, no auth call is written), the readers, the state, the routing table,
\* the id counter nor the lock.
C6_Idempotent ==
    [][\A t \in Threads :
          (At(t, "Connect", "lock") /\ connected /\ stack'[t] # stack[t]) =>
              /\ stack'[t] = Unwind(Below(t), Nil(85), FALSE).stk
              /\ result'[t] = Unwind(Below(t), Nil(85), FALSE).val
              /\ Below(t) = << >> => result'[t] = Nil(85)
              /\ UNCHANGED <<conn, connected, connMu, tr, reader, responses, requestID>>
      ]_vars

\* A Connect invoked by a caller while connected has returned nil by its
\* early return.
C6_Witness ==
    \E t \in Threads : result[t] = Nil(85) /\ connected /\ conn # 0

\* C7: on every transport the first request written is the auth call, and a
\* request other than the auth call is written only after an auth call on that
\* transport returned true.
C7_AuthFirst ==
    \A k \in DOMAIN tr :
        /\ tr[k].written # << >> => tr[k].written[1].method = "auth"
        /\ (\E i \in DOMAIN tr[k].written : tr[k].written[i].method # "auth")
               => tr[k].authed

\* C8: when Connect returns the error of a failed authentication, the state is
\* disconnected, no transport handle is stored and the transport that this
\* Connect dialed is closed.
C8_AuthFailureTeardown ==
    [][\A t \in Threads :
          (At(t, "Connect", "clear") /\ stack'[t] # stack[t]) =>
              /\ connected' = FALSE
              /\ conn' = 0
              /\ tr'[Top(t).tr].closed
      ]_vars

\* C9: a Connect whose dial fails returns, from the disconnected state, a
\* ConnectionError that carries the host and whose Unwrap is the cause of the
\* failure; the state stays disconnected, no transport is stored or opened and
\* no reader is started.
C9_DialFailure ==
    [][\A t \in Threads :
          (At(t, "Connect", "dial") /\ Len(stack'[t]) < Len(stack[t])) =>
              /\ stack'[t] = << >> =>
                     /\ result'[t].kind = "ConnectionError"
                     /\ result'[t].Host = Host
                     /\ Unwrap(result'[t]) \in DialCauses
              /\ ~connected /\ ~connected'
              /\ UNCHANGED <<conn, tr, reader>>
      ]_vars

\* A caller has just got the ConnectionError of a failed dial.
C9_Witness ==
    \E t \in Threads :
        /\ result[t].at = 119 /\ result[t].kind = "ConnectionError"
        /\ ~connected /\ conn = 0

\* C10: a Call that observed the disconnected state goes on to dial: no
\* behaviour ends with the Connect it invoked still waiting to begin.
C10_Reconnects ==
    \A t \in Threads :
        (/\ At(t, "Connect", "lock") /\ Len(stack[t]) >= 2
         /\ stack[t][Len(stack[t]) - 1].fn = "Call" /\ ~crashed)
            => ENABLED Next

\* C11: every invocation of Close returns: no behaviour ends with a Close in
\* progress. When it returns the state is disconnected and the transport handle
\* is empty, and a Close that found no transport returned nil.
C11_CloseReturns ==
    \A t \in Threads :
        /\ (result[t].at \in {295, 297}) => (~connected /\ conn = 0)
        /\ (result[t].at = 297) => result[t].kind = "nil"
        /\ (stack[t] # << >> /\ Top(t).fn = "Close" /\ ~crashed) => ENABLED Next

\* The transports the client dialed and has not closed
Open == {k \in DOMAIN tr : ~tr[k].closed}

\* C12: at every moment at most one transport opened by the client is still
\* open.
C12_OneTransport == Cardinality(Open) <= 1

\* The readResponses goroutines that have not returned
Alive == {r \in Readers : reader[r].pc # "exit"}

\* C13: no interleaving leaves two readResponses goroutines alive that read
\* the same transport (as it would be if at most one of them were alive at
\* every moment).
C13_OneReader ==
    \A r1, r2 \in Alive :
        (r1 # r2 /\ reader[r1].conn # 0) => reader[r1].conn # reader[r2].conn

\* C14: the step in which a Call's write fails, the step in which a reader's
\* read fails with an error that is no timeout (a closure frame included) and
\* the step in which Close runs close() all leave the client disconnected.
C14_ErrorDisconnects ==
    [][/\ \A t \in Threads :
              (/\ At(t, "Call", "write")
               /\ stack'[t] # stack[t]
               /\ stack'[t][Len(stack[t])].ret.kind = "sendFailed") => ~connected'
       /\ \A r \in Readers :
              (/\ reader[r].pc = "read" /\ reader'[r].pc = "exit"
               /\ tr'[reader[r].conn].broken) => ~connected'
       /\ \A t \in Threads :
              (At(t, "Close", "lock") /\ stack'[t] # stack[t]) => ~connected'
      ]_vars

\* The Call invocations that have been given an id
Identified == {c \in Calls : FrameOf(c).id # 0}

\* No two Call invocations hold the same id, and none holds an id beyond the
\* counter
UniqueIds ==
    /\ \A c1, c2 \in Identified : c1 # c2 => FrameOf(c1).id # FrameOf(c2).id
    /\ \A c \in Identified : FrameOf(c).id <= requestID

\* C15: the id counter never decreases, an id that is assigned is greater than
\* every id assigned before it, and no two calls in progress hold the same id,
\* whatever disconnects and reconnects happen in between.
C15_UniqueIds ==
    [][/\ requestID' >= requestID
       /\ \A t \in Threads :
              (At(t, "Call", "genid") /\ stack'[t] # stack[t]) =>
                  /\ stack'[t][Len(stack[t])].id = requestID'
                  /\ requestID' > requestID
       /\ UniqueIds /\ UniqueIds'
      ]_vars

\* Two calls wait on two different transports, the one on the later transport
\* with the greater id: ids went on across a reconnect.
C15_Witness ==
    \E c1, c2 \in Identified :
        /\ FrameOf(c1).pc = "wait" /\ FrameOf(c2).pc = "wait"
        /\ FrameOf(c1).tr # 0 /\ FrameOf(c1).tr < FrameOf(c2).tr
        /\ FrameOf(c1).id < FrameOf(c2).id

\* C16: the step that routes a frame whose id is not registered (an id never
\* given out, or the id of a call that has returned) drops the frame: the
\* routing table with its channels, every caller, the connection state and the
\* transport handle are unchanged, no lock stays held, and the reader goes
\* back to the top of its loop with nothing in hand.
C16_UnknownDropped ==
    [][\A r \in Readers :
          (/\ reader[r].pc = "route"
           /\ reader[r].id \notin DOMAIN responses
           /\ reader'[r] # reader[r]) =>
              /\ UNCHANGED <<responses, responsesMu, stack, connected, conn, tr>>
              /\ reader'[r].pc = "top" /\ reader'[r].id = 0
      ]_vars

\* A reader is about to route a frame that answers a call which has already
\* returned (its id was given out and is no longer registered) while another
\* call is registered.
C16_Witness ==
    \E r \in Readers :
        /\ reader[r].pc = "route"
        /\ reader[r].id \in 1..requestID
        /\ reader[r].id \notin DOMAIN responses
        /\ DOMAIN responses # {}
        /\ connMu = 0 /\ responsesMu = 0

\* C17: the hand-off of a frame never waits, with responsesMu held, for a call
\* that has given up: a reader inside the send of line 275 always has a caller
\* still in its select to take the frame.
C17_HandoffNeverBlocks ==
    \A r \in Readers :
        reader[r].pc = "send" =>
            \E c \in Calls : FrameOf(c).id = reader[r].id /\ FrameOf(c).pc = "wait"

\* The callers inside the write step of Call (lines 189-190)
Writing == {t \in Threads : At(t, "Call", "write")}

\* C18: at no moment are two callers inside the write step of Call, and the
\* one that is inside holds connMu.
C18_WriteExclusive ==
    /\ Cardinality(Writing) <= 1
    /\ \A t \in Writing : connMu = t

\* One caller is inside the write step while the other waits at line 188 to
\* enter it.
C18_Witness ==
    \E t1, t2 \in Threads :
        At(t1, "Call", "write") /\ At(t2, "Call", "lock") /\ conn # 0

\* C19: a Call that waits for its response does not hold connMu (and
\* responsesMu is held by nobody outside the atomic sections of lines 174-176
\* and 179-181), so a waiting call does not keep another call from its lock
\* steps.
C19_WaitHoldsNoLock ==
    \A t \in Threads : At(t, "Call", "wait") => connMu # t

\* While the call of t1 still waits, the call of t2, written after it on the
\* same transport, has received its response and returned nil.
C19_Witness ==
    \E t1, t2 \in Threads :
        /\ At(t1, "Call", "wait") /\ t1 # t2
        /\ result[t2] = Nil(208)
        /\ \E k \in DOMAIN tr : \E i, j \in DOMAIN tr[k].written :
               /\ i < j
               /\ tr[k].written[i].id = Top(t1).id
               /\ tr[k].written[j].method = "user"

\* C20: the classifier reports not-found exactly for an APIError with code 3,
\* or with code -32602 and Details containing "InstanceNotFound"; an auth
\* error exactly for an APIError with code 1 or 2; a validation error exactly
\* for an APIError with code 4; and none of the three for every other code
\* and for every error that is not an APIError, nil included.
C20_Classifier ==
    probe.asked =>
        LET e == probe.err
            wire == e.type = "APIError"
        IN  /\ probe.out.notFound =
                   (wire /\ (e.Code = 3
                             \/ (e.Code = -32602
                                 /\ Contains(e.Details, <<"InstanceNotFound">>))))
            /\ probe.out.auth = (wire /\ e.Code \in {1, 2})
            /\ probe.out.validation = (wire /\ e.Code = 4)

\* C21: for a response with a wire error Call returns an APIError with the
\* error's code and message and its data as text (empty when the data is
\* absent) and decodes nothing into the caller's output; for a response
\* without error, a supplied output and a result payload, the payload is
\* decoded into the output.
C21_WireError ==
    recv.done =>
        LET e == recv.resp.Error
            r == recv.resp.Result
        IN  /\ ~e.nil =>
                  /\ recv.ret.err.type = "APIError"
                  /\ recv.ret.err.Code = e.Code
                  /\ recv.ret.err.Message = e.Message
                  /\ recv.ret.err.Details = (IF e.Data.nil THEN << >> ELSE e.Data.text)
                  /\ ~recv.ret.decoded
                  /\ recv.ret.out = recv.out
            /\ (e.nil /\ ~recv.out.nil /\ ~r.nil) =>
                  /\ recv.ret.decoded
                  /\ r.json = "true" => (recv.ret.out.val /\ recv.ret.err.type = "nil")
                  /\ r.json = "false" => (~recv.ret.out.val /\ recv.ret.err.type = "nil")

\* A wire error with data arrived together with a result, for a supplied output.
C21_Witness ==
    /\ recv.done /\ ~recv.resp.Error.nil /\ ~recv.resp.Error.Data.nil
    /\ ~recv.resp.Result.nil /\ ~recv.out.nil
    /\ recv.ret.err.Details # << >>

\* C22: when the server's successive answers for the job are "running",
\* "running" and then "success" with a result object, WaitForJob returns that
\* object after exactly two poll-interval waits, and the answer it acted on
\* is the third. (WaitForJob returned no error.)
C22_TwoWaits ==
    (/\ job.fn = "WaitForJob" /\ job.pc = "done" /\ job.ret.err = NilErr
     /\ Len(job.hist) >= 3
     /\ job.hist[1] = Running /\ job.hist[2] = Running
     /\ job.hist[3].state = "SUCCESS" /\ job.hist[3].result \in Objects)
    => /\ job.ret.result = ObjectMap(job.hist[3].result)
       /\ job.waits = 2
       /\ job.acted = 3

\* The job record the switch of WaitForJob acted on last.
Acted == IF job.acted = 0 THEN NoAnswer ELSE job.hist[job.acted]

\* C23: when the job record acted on has state FAILED, WaitForJob returns an
\* error containing the job's error message, or a generic text when the job
\* carries none; when it has state ABORTED, an aborted-job error naming the
\* job; both times it returns no result and does nothing more.
C23_FailedAborted ==
    /\ Acted.state = "FAILED" =>
          /\ job.pc = "done"
          /\ job.ret.err.kind = "failed"
          /\ job.ret.err.msg = (IF Acted.error = "boom" THEN "boom" ELSE "job failed")
          /\ job.ret.result = NilMap
    /\ Acted.state = "ABORTED" =>
          /\ job.pc = "done"
          /\ job.ret.err = JobErr("aborted", job.jobID, "")
          /\ job.ret.result = NilMap
    /\ job.pc = "done" => ~ENABLED JobStep

\* A job that failed with the message "boom" was polled after a wait.
C23_Witness ==
    /\ job.pc = "done" /\ Acted.state = "FAILED" /\ Acted.error = "boom"
    /\ job.waits > 0 /\ job.ret.err.msg = "boom"

\* C24: WaitForJob terminates when the job reaches no terminal state: a
\* deadline check that finds the deadline passed returns the timeout error
\* naming the job id without a further query, and until it has returned
\* some goroutine of the running process can take a step.
C24_Terminates ==
    /\ job.ret.err.kind = "timeout" =>
          /\ job.pc = "done"
          /\ job.ret = [result |-> NilMap, err |-> JobErr("timeout", job.jobID, "")]
          /\ After(job.now, job.deadline)
    /\ (job.fn = "WaitForJob" /\ job.pc # "done" /\ ~crashed) =>
          ENABLED (JobStep \/ CallerStep \/ ReaderStep)

\* C25: WaitForJob is cancellable at each wait: when ctx is cancelled while
\* it waits between two polls, its next step returns the context's error, with
\* no result, no further job query and no further wait.
C25_Cancellable ==
    [][(job.pc = "wait" /\ job.cancelled /\ job' # job) =>
          /\ job'.pc = "done"
          /\ job'.ret = [result |-> NilMap, err |-> JobErr("canceled", 0, "")]
          /\ job'.asked = job.asked
          /\ job'.waits = job.waits /\ job'.now = job.now]_vars

\* ctx was cancelled during a wait that was not the first one.
C25_Witness ==
    /\ job.pc = "done" /\ job.ret.err.kind = "canceled" /\ job.waits >= 1

\* C26: for a job record with state SUCCESS WaitForJob returns the record's
\* result field when that is an object, and the whole record when the field
\* is absent, null or another value; and WaitForJob and CreateWithJob never
\* return both a result and an error.
C26_SuccessResult ==
    /\ Acted.state = "SUCCESS" =>
          /\ job.pc = "done"
          /\ job.ret.err = NilErr
          /\ Acted.result = "{\"x\":1}" => job.ret.result = ObjectMap("{\"x\":1}")
          /\ Acted.result \in {"", "null", "7"} => job.ret.result = JobMap(Acted)
    /\ job.ret.result = NilMap \/ job.ret.err = NilErr

\* A successful job whose result is null came back as the whole record.
C26_Witness ==
    /\ job.pc = "done" /\ Acted.state = "SUCCESS" /\ Acted.result = "null"
    /\ job.ret.result.kind = "job" /\ job.ret.result.job.state = "SUCCESS"

\* C27: CreateWithJob issues the create call first: when that call fails it
\* returns the error and no job was queried; when it returned a job handle,
\* every job query is for that handle, and WaitForJob ran for that handle.
C27_CreateThenPoll ==
    job.fn = "CreateWithJob" =>
        /\ job.pc = "create" => job.asked = << >>
        /\ job.ret.err.kind \in {"call", "unmarshal"} =>
              /\ job.pc = "done" /\ job.asked = << >> /\ job.ret.result = NilMap
        /\ job.created.kind = "none" => job.asked = << >>
        /\ job.created.kind = "number" =>
              /\ job.jobID = job.created.n
              /\ \A i \in DOMAIN job.asked : job.asked[i] = job.created.n
              /\ job.ret.err.kind \in {"timeout", "failed", "aborted", "notFound"} =>
                    job.ret.err.job = job.created.n

\* CreateWithJob got a handle, polled for it and returned the job's result.
C27_Witness ==
    /\ job.fn = "CreateWithJob" /\ job.pc = "done" /\ job.created.kind = "number"
    /\ Len(job.asked) >= 2 /\ job.ret.err = NilErr /\ job.ret.result # NilMap

\* C28: the builder accumulates. WithFilter appends its (field, operator,
\* value) triple after the filters already present, which keep their order
\* and values; WithLimit, WithOffset and WithSelect set their field; and each
\* of the four leaves every other field as it was, after any chain of calls.
C28_Accumulates ==
    [][query'.calls = query.calls + 1 =>
        LET q == query.q
            p == query'.q
            c == query'.last
        IN /\ c.fn = "WithFilter" =>
                /\ Len(p.Filters) = Len(q.Filters) + 1
                /\ \A i \in DOMAIN q.Filters : p.Filters[i] = q.Filters[i]
                /\ p.Filters[Len(p.Filters)] = <<c.field, c.operator, c.value>>
                /\ p.Limit = q.Limit /\ p.Offset = q.Offset /\ p.Select = q.Select
           /\ c.fn = "WithLimit" =>
                /\ p.Limit = c.n
                /\ p.Filters = q.Filters /\ p.Offset = q.Offset /\ p.Select = q.Select
           /\ c.fn = "WithOffset" =>
                /\ p.Offset = c.n
                /\ p.Filters = q.Filters /\ p.Limit = q.Limit /\ p.Select = q.Select
           /\ c.fn = "WithSelect" =>
                /\ p.Select = c.fields
                /\ p.Filters = q.Filters /\ p.Limit = q.Limit /\ p.Offset = q.Offset
           /\ p.Count = q.Count /\ p.OrderBy = q.OrderBy /\ p.Options = q.Options]_vars

\* A second filter was added to parameters that had a filter, a limit and a
\* set Count.
C28_Witness ==
    /\ query.last.fn = "WithFilter" /\ Len(query.q.Filters) = 2
    /\ query.q.Filters[1] # query.q.Filters[2]
    /\ query.q.Limit = 10 /\ query.q.Count

\* C29: a request built for an id, a method and a parameter value carries
\* version "2.0" and that id, method and parameter value; encoded and decoded
\* again it has the same method, the same id and an equivalent parameter value.
C29_RoundTrip ==
    /\ codec.pc \in {"built", "decoded"} =>
          /\ codec.req.JSONRPC = "2.0"
          /\ codec.req.ID = codec.id
          /\ codec.req.Method = codec.method
          /\ codec.req.Params = codec.params
    /\ codec.pc = "decoded" =>
          /\ codec.back.Method = codec.method
          /\ codec.back.ID = codec.id
          /\ Equivalent(codec.back.Params, codec.params)

\* A request with id 0 and a slice of a string and a number went the round.
C29_Witness ==
    /\ codec.pc = "decoded" /\ codec.id = 0
    /\ codec.params = Slice(<<Str("key"), IntValue(1)>>)
    /\ codec.back.Params = Slice(<<Str("key"), Float64(1)>>)

\* C30: a read timeout in readResponses while the client is not shut down is
\* absorbed. The steps in which a reader leaves ReadJSON with a timeout and
\* goes back to the top of its loop leave the connected flag, c.conn, the
\* routing table and every caller as they were, and no call returns in them;
\* and the reader keeps reading: no later read of it ends the process.
C30_TimeoutAbsorbed ==
    [][\A r \in Readers :
          /\ (~ctxDone /\ reader[r].pc = "read" /\ reader'[r].pc = "timedout") =>
                /\ reader'[r].conn = reader[r].conn
                /\ connected' = connected /\ conn' = conn
                /\ \A k \in DOMAIN tr :
                      /\ tr'[k].closed = tr[k].closed /\ tr'[k].broken = tr[k].broken
                      /\ tr'[k].written = tr[k].written
                /\ responses' = responses /\ stack' = stack
                /\ result' = NoResult /\ crashed' = crashed
          /\ (reader[r].pc = "timedout" /\ reader'[r] # reader[r]) =>
                /\ reader'[r].pc = "top"
                /\ connected' = connected /\ conn' = conn /\ tr' = tr
                /\ responses' = responses /\ stack' = stack
                /\ result' = NoResult /\ crashed' = crashed
          /\ reader'[r].pc # "panicked"]_vars

\* Reader r returns in this step.
Exits(r) == reader[r].pc # "exit" /\ reader'[r].pc = "exit"

\* Reader r returns from ReadJSON with a closure frame or a transport error
\* that is no timeout, having marked the client disconnected.
ExitsOnError(r) ==
    /\ reader[r].pc = "read" /\ tr'[reader[r].conn].broken /\ ~connected'

\* C31: readResponses returns only on shutdown (c.ctx cancelled), on a
\* closure frame or on a transport error that is no read timeout; in the last
\* two cases it has marked the client disconnected; and a reader that has
\* returned routes no further frame.
C31_ExitConditions ==
    [][\A r \in Readers :
          /\ Exits(r) => (ctxDone \/ ExitsOnError(r))
          /\ reader[r].pc = "exit" => reader'[r] = reader[r]]_vars

\* C31, amended: readResponses also returns when it finds c.conn cleared at
\* the top of its loop (lines 233-235), which a teardown did after marking
\* the client disconnected; the other exits are as stated, and a reader that
\* has returned routes no further frame.
C31_ExitConditionsAmended ==
    [][\A r \in Readers :
          /\ Exits(r) =>
                \/ ctxDone
                \/ ExitsOnError(r)
                \/ (reader[r].pc = "lock" /\ conn = 0 /\ ~connected)
          /\ reader[r].pc = "exit" => reader'[r] = reader[r]]_vars

\* A reader has returned although the client was never shut down and no read
\* ever failed: it found c.conn cleared.
C31_Witness ==
    /\ ~ctxDone /\ \A k \in DOMAIN tr : ~tr[k].broken
    /\ \E r \in Readers : reader[r].pc = "exit"

\* C32: Close awaits readResponses: in the step in which Close returns, every
\* reader goroutine has returned, so none reads the transport or hands a frame
\* to a waiter afterwards.
C32_CloseAwaitsReader ==
    \A t \in Threads :
        result[t].at \in {295, 297} => \A r \in Readers : reader[r].pc = "exit"

\* Call frame f ended by timeout or by cancellation.
Aborted(f) == f.fn = "Call" /\ f.pc = "defer" /\ f.ret.kind \in {"timeout", "canceled"}

\* C33: a Call that ends by timeout or by cancellation changes nothing but
\* its own routing-table entry. Leaving the select changes only the caller;
\* the return deletes the call's own entry and leaves the connected flag,
\* c.conn, the transports with the requests written on them, the readers and
\* every other entry with its channel as they were.
C33_AbortTouchesOwnEntry ==
    [][\A t \in Threads :
          /\ (At(t, "Call", "wait") /\ stack'[t] # << >> /\ Aborted(stack'[t][Len(stack'[t])])
                /\ Len(stack'[t]) = Len(stack[t])) =>
                /\ responses' = responses /\ tr' = tr /\ reader' = reader
                /\ connected' = connected /\ conn' = conn /\ connMu' = connMu
          /\ (stack[t] # << >> /\ Aborted(Top(t)) /\ stack'[t] # stack[t]) =>
                /\ DOMAIN responses' = DOMAIN responses \ {Top(t).id}
                /\ \A i \in DOMAIN responses' : responses'[i] = responses[i]
                /\ tr' = tr /\ reader' = reader
                /\ connected' = connected /\ conn' = conn /\ connMu' = connMu
                /\ requestID' = requestID]_vars

\* A call has returned its timeout while another call is registered on the
\* connected client and its own request stays written on the transport.
C33_Witness ==
    /\ connected /\ conn # 0
    /\ \E t \in Threads : result[t].kind = "timeout"
    /\ DOMAIN responses # {}
    /\ Len(tr[conn].written) >= 2

\* The goroutines whose Connect is between taking connMu and releasing it
\* (lines 81-132), and the authenticate calls in progress.
Dialing == {t \in Threads : \E pc \in {"dial", "store", "mark"} : At(t, "Connect", pc)}
AuthCalls ==
    {p \in Threads \X (1..(2 * MaxOps + 2)) :
        /\ p[2] <= Len(stack[p[1]])
        /\ stack[p[1]][p[2]].fn = "Call" /\ stack[p[1]][p[2]].method = "auth"}

\* C34: at most one connect attempt is in flight: never two goroutines
\* between the lock of line 81 and the unlock of line 132; a dial is made
\* only in the disconnected state, by the holder of connMu; the step that
\* marks the client connected ends the disconnected episode and starts exactly
\* one auth call, and auth calls start at no other step.
C34_OneDial ==
    [][/\ Cardinality(Dialing) <= 1 /\ Cardinality(Dialing') <= 1
       /\ \A t \in Dialing : ~connected /\ connMu = t
       /\ Len(tr') > Len(tr) =>
             /\ Len(tr') = Len(tr) + 1 /\ ~connected
             /\ \E t \in Dialing : At(t, "Connect", "dial") /\ stack'[t] # stack[t]
       /\ (\E t \in Threads : At(t, "Connect", "mark") /\ stack'[t] # stack[t]) =>
             /\ ~connected /\ connected'
             /\ Cardinality(AuthCalls') = Cardinality(AuthCalls) + 1
       /\ (connected' /\ ~connected) \/ Cardinality(AuthCalls') > Cardinality(AuthCalls) =>
             \E t \in Threads : At(t, "Connect", "mark") /\ stack'[t] # stack[t]]_vars

\* Two callers saw the client disconnected and both entered Connect; one dial
\* was made and the other caller took the early return of line 85.
C34_Witness ==
    /\ Len(tr) = 1 /\ connected
    /\ \E t \in Threads : result[t].at = 85 /\ result[t].kind = "nil"
    /\ \E u \in Threads : At(u, "Call", "check") /\ Top(u).method = "auth"

\* C35: WaitForJob issues exactly one core.get_jobs call per poll: the calls
\* made never exceed the poll-interval waits by more than one, the record the
\* switch acts on is the answer to the latest call, and a core.get_jobs call
\* that returns an error makes WaitForJob return the query error.
C35_OneQueryPerPoll ==
    [][/\ Len(job'.asked) <= job'.waits + 1
       /\ job'.acted # job.acted => job'.acted = Len(job'.hist)
       /\ (/\ job.pc \in {"called1", "called2"} /\ job'.pc # job.pc
           /\ Top(Caller).ret.kind # "nil") =>
             /\ job'.pc = "done"
             /\ job'.ret = [result |-> NilMap, err |-> JobErr("query", 0, "")]]_vars

\* The answer the call of lines 393-396 has just decoded into jobs.
Decoded36 == job'.hist[Len(job'.hist)]

\* C36: in WaitForJob an answer without a job record ends the wait in that
\* step with the job-not-found error naming the job id; a record whose state
\* is none of SUCCESS, FAILED, ABORTED (a record without a state included)
\* sends WaitForJob to its wait, and the wait, unless ctx is cancelled, lasts
\* one poll interval and leads back to the top of the loop.
C36_NotFoundOrStillRunning ==
    [][/\ (job.pc = "called2" /\ Len(job'.hist) > Len(job.hist)) =>
             /\ Decoded36.kind = "empty" =>
                   /\ job'.pc = "done"
                   /\ job'.ret = [result |-> NilMap,
                                  err |-> JobErr("notFound", job.jobID, "")]
                   /\ job'.waits = job.waits
             /\ (Decoded36.kind = "job"
                   /\ Decoded36.state \notin {"SUCCESS", "FAILED", "ABORTED"}) =>
                   /\ job'.pc = "wait" /\ job'.ret = job.ret
       /\ (job.pc = "wait" /\ ~job.cancelled /\ job' # job
             /\ job'.cancelled = job.cancelled) =>
             /\ job'.pc = "check"
             /\ job'.now = job.now + pollInterval * Second
             /\ job'.waits = job.waits + 1
             /\ job'.asked = job.asked]_vars

\* A record without a state was waited on, and a later poll found no record.
C36_Witness ==
    /\ job.pc = "done" /\ job.ret.err = JobErr("notFound", job.jobID, "")
    /\ job.waits >= 1
    /\ \E i \in DOMAIN job.hist : job.acted = i /\ job.hist[i] = Stateless
    /\ job.hist[Len(job.hist)] = EmptyArray

\* C37: whenever Call stands at its write step (lines 188-191) c.conn is
\* present, and no Call has used an empty c.conn.
C37_WriteHandlePresent ==
    /\ \A t \in Threads : At(t, "Call", "write") => conn # 0
    /\ \A t \in Threads : stack[t] # << >> => Top(t).ret.kind # "panic"

\* The goroutine that takes a step.
Stepping(t) == stack'[t] # stack[t]

\* C38: whenever the client is connected c.conn is present. Connect stores
\* the transport (line 125) before it marks the client connected (126), the
\* teardown marks it disconnected (291) before it clears c.conn (294), and
\* c.conn changes and connected becomes true only in a step of the goroutine
\* that holds connMu.
C38_ConnectedHasHandle ==
    [][/\ connected => conn # 0
       /\ connected' => conn' # 0
       /\ \A t \in Threads :
             /\ At(t, "Connect", "store") => ~connected
             /\ At(t, "Connect", "mark") => (~connected /\ conn = Top(t).tr /\ conn # 0)
             /\ (stack[t] # << >> /\ Top(t).pc = "clear") => ~connected
       /\ (conn' # conn \/ (connected' /\ ~connected)) =>
             \E t \in Threads : connMu = t /\ Stepping(t)]_vars

\* A second session is connected after the teardown of the first: the first
\* transport is closed and c.conn is the second.
C38_Witness ==
    /\ connected /\ Len(tr) = 2 /\ conn = 2
    /\ tr[1].closed /\ ~tr[1].broken /\ ~tr[2].closed
    /\ \E t \in Threads : At(t, "Call", "check") /\ Top(t).method = "auth"

\* C39: the teardown after a failed authenticate and the disconnected mark of
\* an exiting readResponses touch their own session only. The teardown of the
\* Connect that dialed transport k closes no other transport and, when c.conn
\* is another transport, leaves c.conn and connected alone; a reader whose
\* read of transport k failed clears the connected flag only while c.conn is k.
C39_OwnSessionOnly ==
    [][/\ \A t \in Threads :
             /\ (At(t, "Connect", "close") /\ Stepping(t)) =>
                    (conn # Top(t).tr => connected' = connected)
             /\ (At(t, "Connect", "clear") /\ Stepping(t)) =>
                    /\ \A k \in DOMAIN tr : k # Top(t).tr => tr'[k].closed = tr[k].closed
                    /\ conn # Top(t).tr => conn' = conn
       /\ \A r \in Readers :
             (reader'[r] # reader[r] /\ connected /\ ~connected') =>
                 conn = reader[r].conn]_vars

\* C40: Close is permanent. c.ctx, once cancelled, stays cancelled; a
\* readResponses that finds it cancelled at the top of its loop returns
\* without reading; no Call invoked after Close has returned receives a
\* response; and a Connect invoked after Close has returned returns only from
\* its failed dial or from the teardown after a failed authenticate, with the
\* client disconnected.
C40_ClosePermanent ==
    [][/\ ctxDone => ctxDone'
       /\ \A r \in Readers :
             (ctxDone /\ reader[r].pc = "top") => reader'[r].pc \in {"top", "exit"}
       /\ \A t \in Threads : \A i \in DOMAIN stack'[t] :
             (stack'[t][i].fn = "Call" /\ stack'[t][i].late) =>
                 stack'[t][i].resp = NoResp
       /\ \A t \in Threads : \A i \in DOMAIN stack[t] :
             (stack[t][i].fn = "Connect" /\ stack[t][i].late /\ Len(stack'[t]) < i) =>
                 /\ i = Len(stack[t]) /\ stack[t][i].pc \in {"dial", "clear"}
                 /\ ~connected']_vars

====
